---------------------------- MODULE Spec2Model ----------------------------
(***************************************************************************)
(* Model of the PDB acquisition code of Bio.PDB:                           *)
(*   - the fastest-mirror selector (get_fastest_server and the memoized    *)
(*     probe get_server_connection_timing),                                *)
(*   - the retrieval of a structure file into the local tree               *)
(*     (PDBList.retrieve_pdb_file / PDBList.retrieve_assembly_file),       *)
(*   - the loop of PDBList.download_assemblies,                            *)
(*   - file names, paths and URLs (PDBFileFormat, PDBServer),              *)
(*   - the parsing of legacy server addresses (handle_legacy_server),      *)
(*   - the loop of PDBList.update_pdb over the new and modified entries,   *)
(*   - concurrent callers of the memoized probe and the probe's socket,    *)
(*   - the static configuration (get_config, get_pdb_servers,              *)
(*     get_default_protocol).                                              *)
(*                                                                         *)
(* Python's None is the empty tuple << >> and a present value v is <<v>>,  *)
(* so that "x is None", truthiness and comparisons are explicit.           *)
(***************************************************************************)
EXTENDS Integers, Sequences, FiniteSets, TLC

VARIABLES
    \* ---- selection loop of get_fastest_server -------------------------
    sel_pc,          \* "loop" while iterating, "done" once returned/raised
    sel_protocol,    \* the protocol argument
    sel_servers,     \* the candidate list, in iteration order
    sel_timings,     \* what the probe of each candidate gives, same order
    sel_i,           \* number of candidates already visited
    fastest_server,  \* local variable fastest_server (None or a server)
    fastest_timing,  \* local variable fastest_timing (None or a time)
    sel_result,      \* None while looping, then <<"returned", s>> or <<"raised", e>>
    \* ---- memoized probes ----------------------------------------------
    timing_cache,    \* functools.cache of get_server_connection_timing
    fastest_cache,   \* functools.cache of get_fastest_server
    connects,        \* TCP connects issued per (server, protocol) since the last cache_clear
    probe_ret,       \* what the last call returned
    \* ---- retrieval into the local tree --------------------------------
    target,          \* the request: method, file_format, code, index, pdir, obsolete
    dir_exists,      \* whether the target directory exists
    fs,              \* content of the archive, final and bystander paths
    pc,              \* position of the running retrieve call
    call,            \* the running (or last) call and what it did so far
    prev_call,       \* the call before it
    \* ---- loop of download_assemblies -----------------------------------
    asm_pc,          \* "loop" while iterating, then "done" or "raised"
    available,       \* how many assemblies the server holds for the entry
    assembly_index,  \* local variable assembly_index
    next_assembly,   \* local variable next_assembly
    attempts,        \* the indices passed to retrieve_assembly_file, in call order
    last_response,   \* how the latest retrieve_assembly_file call ended
    \* ---- names, paths and URLs -----------------------------------------
    request,         \* the arguments of the call under study
    result,          \* None before the call, then what it returned or raised
    \* ---- legacy server addresses ---------------------------------------
    legacy_server,   \* the address string given to handle_legacy_server
    legacy_result,   \* None before the call, then what it returned or raised
    \* ---- concurrent callers of the memoized probe ----------------------
    threads,         \* per thread: position in the probe, key, socket, result
    \* ---- loop of update_pdb --------------------------------------------
    upd_pc,          \* "loop" while iterating over new + modified, then "done"
    upd_codes,       \* new + modified, with what retrieving each code will do
    upd_i,           \* number of codes already visited
    upd_log          \* per visited code: the code and how its attempt ended

selVars == <<sel_pc, sel_protocol, sel_servers, sel_timings, sel_i,
             fastest_server, fastest_timing, sel_result>>
probeVars == <<timing_cache, fastest_cache, connects, probe_ret>>
retVars == <<target, dir_exists, fs, pc, call, prev_call>>
asmVars == <<asm_pc, available, assembly_index, next_assembly, attempts, last_response>>
fmtVars == <<request, result>>
legVars == <<legacy_server, legacy_result>>
thrVars == <<threads>>
updVars == <<upd_pc, upd_codes, upd_i, upd_log>>
vars == <<selVars, probeVars, retVars, asmVars, fmtVars, legVars, thrVars, updVars>>

None == << >>
Some(v) == <<v>>
IsNone(x) == x = None
Val(x) == x[1]

(***************************************************************************)
(* Protocols and servers.                                                  *)
(***************************************************************************)
HTTPS == 443
FTP == 21
PDBServerProtocol == <<HTTPS, FTP>>
Protocols == {PDBServerProtocol[i] : i \in 1..Len(PDBServerProtocol)}

PDBServer(domain, label, pdb_directory, ftp_subdomain, http_subdomain) ==
    [domain |-> domain, label |-> label, pdb_directory |-> pdb_directory,
     ftp_subdomain |-> ftp_subdomain, http_subdomain |-> http_subdomain]

\* PDB_SERVERS.values(), in the dictionary's insertion order WW, US, UK, JP.
PDB_SERVERS ==
    << PDBServer("wwpdb.org", "Worldwide", "/pub/pdb", "ftp", "files"),
       PDBServer("rcsb.org", "United States", "/pub/pdb", "ftp", "files"),
       PDBServer("ebi.ac.uk", "United Kingdom", "/pub/databases/pdb", "ftp", "ftp"),
       PDBServer("pdbj.org", "Japan", "/pub/pdb", "ftp", "data.pdbjbk1") >>

(***************************************************************************)
(* Bounds.                                                                 *)
(***************************************************************************)
\* Measured connect times range over 0..MaxTiming (0: a clock-resolution artifact).
MaxTiming == 5

Timings == {None} \cup {Some(t) : t \in 0..MaxTiming}

(***************************************************************************)
(* get_fastest_server: the selection loop.                                 *)
(***************************************************************************)
\* Python truthiness of an int | None: None and 0 are falsy.
Truthy(x) == ~IsNone(x) /\ Val(x) # 0

\* Mutant: "timing is not None" instead of truthiness.
LoopBodyNotNone(loc, server, timing) ==
    IF ~IsNone(timing) /\ (~Truthy(loc.fastest_timing) \/ Val(timing) < Val(loc.fastest_timing))
    THEN [fastest_server |-> Some(server), fastest_timing |-> timing]
    ELSE loc

\* Mutant: "<=" instead of "<", so that a later server wins a tie.
LoopBodyNonStrict(loc, server, timing) ==
    IF Truthy(timing) /\ (~Truthy(loc.fastest_timing) \/ Val(timing) <= Val(loc.fastest_timing))
    THEN [fastest_server |-> Some(server), fastest_timing |-> timing]
    ELSE loc

\* Mutant: the "not fastest_timing" disjunct is dropped, so that no first
\* candidate is ever taken.
LoopBodyNoFirst(loc, server, timing) ==
    IF Truthy(timing) /\ (Truthy(loc.fastest_timing) /\ Val(timing) < Val(loc.fastest_timing))
    THEN [fastest_server |-> Some(server), fastest_timing |-> timing]
    ELSE loc

\* if timing and (not fastest_timing or timing < fastest_timing): ...
LoopBody(loc, server, timing) ==
    IF Truthy(timing) /\ (~Truthy(loc.fastest_timing) \/ Val(timing) < Val(loc.fastest_timing))
    THEN [fastest_server |-> Some(server), fastest_timing |-> timing]
    ELSE loc

\* Mutant: fall back on the first candidate instead of raising.
LoopResultFallback(servers, loc) ==
    IF IsNone(loc.fastest_server)
    THEN (IF servers = << >> THEN <<"raised", "PDBServersConnectionError">>
          ELSE <<"returned", servers[1]>>)
    ELSE <<"returned", Val(loc.fastest_server)>>

\* if not fastest_server: raise PDBServersConnectionError(protocol); return fastest_server
LoopResult(servers, loc) ==
    IF IsNone(loc.fastest_server)
    THEN <<"raised", "PDBServersConnectionError">>
    ELSE <<"returned", Val(loc.fastest_server)>>

Locals == [fastest_server |-> fastest_server, fastest_timing |-> fastest_timing]

\* get_fastest_server(protocol) is entered: the candidates and what their
\* probes will measure are the inputs.
InitSelect ==
    /\ sel_pc = "loop"
    /\ sel_protocol \in Protocols
    /\ \E n \in 0..Len(PDB_SERVERS) :
          /\ sel_servers = SubSeq(PDB_SERVERS, 1, n)
          /\ sel_timings \in [1..n -> Timings]
    /\ sel_i = 0
    /\ fastest_server = None
    /\ fastest_timing = None
    /\ sel_result = None
    /\ timing_cache = << >>
    /\ fastest_cache = << >>
    /\ connects = << >>
    /\ probe_ret = None
    /\ target = None
    /\ dir_exists = FALSE
    /\ fs = << >>
    /\ pc = "idle"
    /\ call = None
    /\ prev_call = None
    /\ asm_pc = "done"
    /\ available = 0
    /\ assembly_index = 0
    /\ next_assembly = FALSE
    /\ attempts = << >>
    /\ last_response = None
    /\ request = None
    /\ result = None
    /\ legacy_server = None
    /\ legacy_result = None
    /\ threads = << >>
    /\ upd_pc = "done"
    /\ upd_codes = << >>
    /\ upd_i = 0
    /\ upd_log = << >>

\* One iteration of "for server in ...".
SelStep ==
    /\ sel_pc = "loop"
    /\ sel_i < Len(sel_servers)
    /\ LET new == LoopBody(Locals, sel_servers[sel_i + 1], sel_timings[sel_i + 1])
       IN  /\ fastest_server' = new.fastest_server
           /\ fastest_timing' = new.fastest_timing
    /\ sel_i' = sel_i + 1
    /\ UNCHANGED <<sel_pc, sel_protocol, sel_servers, sel_timings, sel_result>>
    /\ UNCHANGED <<probeVars, retVars, asmVars, fmtVars, legVars, thrVars, updVars>>

\* The end of the loop: raise or return.
SelFinish ==
    /\ sel_pc = "loop"
    /\ sel_i = Len(sel_servers)
    /\ sel_result' = Some(LoopResult(sel_servers, Locals))
    /\ sel_pc' = "done"
    /\ UNCHANGED <<sel_protocol, sel_servers, sel_timings, sel_i,
                   fastest_server, fastest_timing>>
    /\ UNCHANGED <<probeVars, retVars, asmVars, fmtVars, legVars, thrVars, updVars>>

NextSelect == SelStep \/ SelFinish

SpecSelect == InitSelect /\ [][NextSelect]_vars

(***************************************************************************)
(* Claims about the selection (checked under SpecSelect).                  *)
(***************************************************************************)
SelIdx == 1..Len(sel_servers)
\* The candidates whose probe recorded a connect time (the connect succeeded).
SelRecorded == {i \in SelIdx : ~IsNone(sel_timings[i])}
\* Those whose recorded time is not zero.
SelNonZero == {i \in SelRecorded : Val(sel_timings[i]) # 0}
\* In S, the first index in iteration order that holds the smallest time.
FirstSmallest(S) ==
    CHOOSE i \in S : \A j \in S :
        \/ Val(sel_timings[i]) < Val(sel_timings[j])
        \/ Val(sel_timings[i]) = Val(sel_timings[j]) /\ i <= j
SelReturned(i) == sel_result = Some(<<"returned", sel_servers[i]>>)
SelRaised == sel_result = Some(<<"raised", "PDBServersConnectionError">>)

\* C1 as stated: get_fastest_server returns, among the candidates whose probe
\* recorded a connect time, the first one holding the smallest recorded time.
\* (Refuted: a recorded time of 0 is the smallest and is never selected.)
C1_AsStated ==
    (sel_pc = "done" /\ SelRecorded # {}) => SelReturned(FirstSmallest(SelRecorded))

\* C1 amended: get_fastest_server returns, among the candidates whose probe
\* recorded a NONZERO connect time, the one with the smallest recorded time, and
\* on a tie the one that comes first in the iteration order.
C1_FastestAmongNonZero ==
    (sel_pc = "done" /\ SelNonZero # {}) => SelReturned(FirstSmallest(SelNonZero))

\* C1 witness: two candidates tie on the smallest nonzero time, a zero time was
\* recorded too, and the first of the two is returned.
C1_Witness ==
    /\ sel_pc = "done"
    /\ \E i, j \in SelNonZero :
          /\ i < j
          /\ sel_timings[i] = sel_timings[j]
          /\ \A k \in SelNonZero : Val(sel_timings[i]) <= Val(sel_timings[k])
          /\ SelReturned(i)
    /\ SelRecorded # SelNonZero

\* C2: a server whose measured connect time is 0 is never returned, wherever
\* it sits in the candidate order; for three servers measured [5, 0, 1] the
\* server with time 1 (the third) is returned.
C2_ZeroNeverSelected ==
    sel_pc = "done" =>
        /\ \A i \in SelIdx : sel_timings[i] = Some(0) => ~SelReturned(i)
        /\ sel_timings = <<Some(5), Some(0), Some(1)>> => SelReturned(3)

\* C2 witness: the run on [5, 0, 1] has ended and returned the third server.
C2_Witness ==
    /\ sel_pc = "done"
    /\ sel_timings = <<Some(5), Some(0), Some(1)>>
    /\ SelReturned(3)

\* C3: when no candidate's TCP connect succeeded (every probe gave None),
\* get_fastest_server raises PDBServersConnectionError and returns no server.
C3_NoneReachableRaises ==
    (sel_pc = "done" /\ SelRecorded = {}) => SelRaised

\* C3 witness: several candidates, none reachable, and the error was raised.
C3_Witness ==
    /\ sel_pc = "done"
    /\ Len(sel_servers) >= 2
    /\ SelRecorded = {}
    /\ SelRaised

\* C28 as stated: get_fastest_server returns a server, and does not raise,
\* whenever the TCP connect to at least one candidate succeeded.
\* (Refuted: a connect that succeeded with a measured time of 0 is skipped.)
C28_AsStated ==
    (sel_pc = "done" /\ SelRecorded # {}) =>
        (~SelRaised /\ \E i \in SelIdx : SelReturned(i))

\* C28 amended: get_fastest_server returns one of the candidates, and does not
\* raise, whenever the TCP connect to at least one candidate succeeded with a
\* nonzero measured time.
C28_ReturnsWhenNonZero ==
    (sel_pc = "done" /\ SelNonZero # {}) =>
        (~SelRaised /\ \E i \in SelNonZero : SelReturned(i))

\* C28 witness: one connect failed, one measured 0, one measured a nonzero
\* time, and the last of these candidates was returned.
C28_Witness ==
    /\ sel_pc = "done"
    /\ \E i, j, k \in SelIdx :
          /\ sel_timings[i] = None
          /\ sel_timings[j] = Some(0)
          /\ k \in SelNonZero
          /\ k > i /\ k > j
          /\ SelReturned(k)

(***************************************************************************)
(* The memoized probe and the memoized get_fastest_server                  *)
(* (Bio.PDB.acquisition.server).                                           *)
(***************************************************************************)
\* A probe measures a connect time in 0..MaxProbeTime, or fails (None).
MaxProbeTime == 1
\* The connect counter of the model stops counting at this value.
MaxConnects == 2

ProbeOutcomes == {None} \cup {Some(t) : t \in 0..MaxProbeTime}

\* The dataclass PDBServer(code, domain, label, pdb_directory).  "inst" tells
\* two instances with equal fields apart; it is no field of the dataclass.
AcqServer(inst, code, domain, label, pdb_directory) ==
    [inst |-> inst, code |-> code, domain |-> domain, label |-> label,
     pdb_directory |-> pdb_directory]

\* The instances get_pdb_servers() builds, and those a caller builds itself.
Instances == {"get_pdb_servers", "caller"}

WWServer(inst) == AcqServer(inst, "WW", "wwpdb.org", "Worldwide", "/pub/pdb")
USServer(inst) == AcqServer(inst, "US", "rcsb.org", "United States", "/pub/pdb")

\* get_pdb_servers(): a fresh list of instances, in the configuration's order.
get_pdb_servers == <<WWServer("get_pdb_servers"), USServer("get_pdb_servers")>>

ServerValues == {WWServer(i) : i \in Instances} \cup {USServer(i) : i \in Instances}

\* The fields of the frozen dataclass: what __eq__ and __hash__ read.
Fields(server) ==
    [code |-> server.code, domain |-> server.domain, label |-> server.label,
     pdb_directory |-> server.pdb_directory]

\* Mutant: the cache keyed by object identity instead of by value.
CacheKeyByIdentity(server, protocol) == <<server, protocol>>

\* The key functools.cache builds from the arguments (server, protocol).
CacheKey(server, protocol) == <<Fields(server), protocol>>

Keys == {<<Fields(s), p>> : s \in ServerValues, p \in Protocols}

Put(f, k, v) == [x \in DOMAIN f \cup {k} |-> IF x = k THEN v ELSE f[x]]

Count(c, k) == IF k \in DOMAIN c THEN c[k] ELSE 0
Bump(c, k) == Put(c, k, IF Count(c, k) < MaxConnects THEN Count(c, k) + 1 ELSE MaxConnects)

\* Mutant: the measured result is returned and not stored.
ProbeNoStore(st, server, protocol, outcome) ==
    LET k == CacheKey(server, protocol) IN
    IF k \in DOMAIN st.cache
    THEN [cache |-> st.cache, connects |-> st.connects, val |-> st.cache[k]]
    ELSE [cache |-> st.cache, connects |-> Bump(st.connects, k), val |-> outcome]

\* get_server_connection_timing(server, protocol) under functools.cache: a hit
\* returns the stored value; a miss builds a socket, connects (outcome is None
\* when connect raised, else the elapsed time), closes the socket, stores and
\* returns the outcome.  st holds the cache and the connect counters.
Probe(st, server, protocol, outcome) ==
    LET k == CacheKey(server, protocol) IN
    IF k \in DOMAIN st.cache
    THEN [cache |-> st.cache, connects |-> st.connects, val |-> st.cache[k]]
    ELSE [cache |-> Put(st.cache, k, outcome),
          connects |-> Bump(st.connects, k), val |-> outcome]

\* The loop of get_fastest_server over servers[i..], probing through the cache.
\* outcomes[j] is what a connect to servers[j] would measure now.
RECURSIVE FastestLoop(_, _, _, _, _, _)
FastestLoop(servers, protocol, outcomes, i, st, loc) ==
    IF i > Len(servers)
    THEN [cache |-> st.cache, connects |-> st.connects,
          result |-> LoopResult(servers, loc)]
    ELSE LET r == Probe(st, servers[i], protocol, outcomes[i])
         IN  FastestLoop(servers, protocol, outcomes, i + 1,
                         [cache |-> r.cache, connects |-> r.connects],
                         LoopBody(loc, servers[i], r.val))

InitProbe ==
    /\ timing_cache = << >>
    /\ fastest_cache = << >>
    /\ connects = << >>
    /\ probe_ret = None
    /\ sel_pc = "done"
    /\ sel_protocol = None
    /\ sel_servers = << >>
    /\ sel_timings = << >>
    /\ sel_i = 0
    /\ fastest_server = None
    /\ fastest_timing = None
    /\ sel_result = None
    /\ target = None
    /\ dir_exists = FALSE
    /\ fs = << >>
    /\ pc = "idle"
    /\ call = None
    /\ prev_call = None
    /\ asm_pc = "done"
    /\ available = 0
    /\ assembly_index = 0
    /\ next_assembly = FALSE
    /\ attempts = << >>
    /\ last_response = None
    /\ request = None
    /\ result = None
    /\ legacy_server = None
    /\ legacy_result = None
    /\ threads = << >>
    /\ upd_pc = "done"
    /\ upd_codes = << >>
    /\ upd_i = 0
    /\ upd_log = << >>

\* What a connect to (server, protocol) can measure now.  A call that hits the
\* cache attempts no connect, so there is nothing to measure.
Measurable(server, protocol) ==
    IF CacheKey(server, protocol) \in DOMAIN timing_cache
    THEN {None}
    ELSE ProbeOutcomes

\* A call of get_server_connection_timing(server, protocol).
TimingCall ==
    \E server \in ServerValues, protocol \in Protocols :
      \E outcome \in Measurable(server, protocol) :
        LET r == Probe([cache |-> timing_cache, connects |-> connects],
                       server, protocol, outcome)
        IN  /\ timing_cache' = r.cache
            /\ connects' = r.connects
            /\ probe_ret' = Some([op |-> "timing", server |-> server,
                                  protocol |-> protocol, val |-> r.val,
                                  connected |-> r.connects # connects])
            /\ UNCHANGED fastest_cache
            /\ UNCHANGED <<selVars, retVars, asmVars, fmtVars, legVars, thrVars, updVars>>

\* A hit of the functools.cache of get_fastest_server: the stored server.
FastestCallHit ==
    \E protocol \in DOMAIN fastest_cache :
        /\ probe_ret' = Some([op |-> "fastest", protocol |-> protocol,
                              val |-> <<"returned", fastest_cache[protocol]>>,
                              connected |-> FALSE])
        /\ UNCHANGED <<timing_cache, fastest_cache, connects>>
        /\ UNCHANGED <<selVars, retVars, asmVars, fmtVars, legVars, thrVars, updVars>>

\* A miss: get_fastest_server(protocol) runs the loop and functools.cache
\* stores the server it returns (nothing is stored when it raises).
FastestCallMiss ==
    \E protocol \in Protocols \ DOMAIN fastest_cache :
      \E outcomes \in [1..Len(get_pdb_servers) -> ProbeOutcomes] :
        /\ \A j \in 1..Len(get_pdb_servers) :
              outcomes[j] \in Measurable(get_pdb_servers[j], protocol)
        /\ LET r == FastestLoop(get_pdb_servers, protocol, outcomes, 1,
                                [cache |-> timing_cache, connects |-> connects],
                                [fastest_server |-> None, fastest_timing |-> None])
           IN  /\ timing_cache' = r.cache
               /\ connects' = r.connects
               /\ fastest_cache' = IF r.result[1] = "returned"
                                   THEN Put(fastest_cache, protocol, r.result[2])
                                   ELSE fastest_cache
               /\ probe_ret' = Some([op |-> "fastest", protocol |-> protocol,
                                     val |-> r.result,
                                     connected |-> r.connects # connects])
               /\ UNCHANGED <<selVars, retVars, asmVars, fmtVars, legVars, thrVars, updVars>>

\* get_server_connection_timing.cache_clear()
ClearTimingCache ==
    /\ timing_cache' = << >>
    /\ connects' = << >>
    /\ probe_ret' = Some([op |-> "timing_cache_clear"])
    /\ UNCHANGED fastest_cache
    /\ UNCHANGED <<selVars, retVars, asmVars, fmtVars, legVars, thrVars, updVars>>

\* get_fastest_server.cache_clear()
ClearFastestCache ==
    /\ fastest_cache' = << >>
    /\ probe_ret' = Some([op |-> "fastest_cache_clear"])
    /\ UNCHANGED <<timing_cache, connects>>
    /\ UNCHANGED <<selVars, retVars, asmVars, fmtVars, legVars, thrVars, updVars>>

NextProbe ==
    \/ TimingCall
    \/ FastestCallHit
    \/ FastestCallMiss
    \/ ClearTimingCache
    \/ ClearFastestCache

SpecProbe == InitProbe /\ [][NextProbe]_vars

(***************************************************************************)
(* Claims about the probe cache (checked under SpecProbe).                 *)
(***************************************************************************)
\* A (server, protocol) pair as a value: the server's fields and the protocol.
PairOf(server, protocol) ==
    <<[code |-> server.code, domain |-> server.domain, label |-> server.label,
       pdb_directory |-> server.pdb_directory], protocol>>

LastOp(ret) == IF IsNone(ret) THEN "none" ELSE Val(ret).op

\* What C4 asks of one step that is not a cache_clear of the probe cache.
C4_Step ==
    LastOp(probe_ret') # "timing_cache_clear" =>
        \* a recorded result is never replaced, and no entry disappears
        /\ DOMAIN timing_cache \subseteq DOMAIN timing_cache'
        /\ \A k \in DOMAIN timing_cache : timing_cache'[k] = timing_cache[k]
        \* one TCP connect for each pair that gets recorded, none for any other
        /\ \A k \in Keys \cup DOMAIN timing_cache' \cup DOMAIN connects' :
              Count(connects', k) =
                  Count(connects, k) +
                      (IF k \in DOMAIN timing_cache' \ DOMAIN timing_cache THEN 1 ELSE 0)
        \* a request for a pair records that pair and nothing else, and returns
        \* what is recorded for the pair, whichever instance names the server
        /\ LastOp(probe_ret') = "timing" =>
              LET c == Val(probe_ret')
                  k == PairOf(c.server, c.protocol)
              IN  /\ DOMAIN timing_cache' = DOMAIN timing_cache \cup {k}
                  /\ c.val = timing_cache'[k]
                  /\ c.connected = (k \notin DOMAIN timing_cache)

\* C4: probe results are memoized per (server, protocol) value.  Between two
\* cache_clear calls at most one TCP connect is issued per pair and every later
\* request returns the first recorded result; the same server under another
\* protocol is a separate entry; two server instances with equal fields share
\* one entry; after a cache_clear the next request for a pair connects again.
C4_Memoized ==
    /\ [](\A k \in DOMAIN connects : connects[k] <= 1)
    /\ [][C4_Step]_vars

\* C4 witness: a caller's own instance of the WW server asked for FTP and was
\* answered from the cache without a connect, while the same server holds a
\* different result for HTTPS, each pair having been connected to once.
C4_Witness ==
    /\ LastOp(probe_ret) = "timing"
    /\ Val(probe_ret).server = WWServer("caller")
    /\ Val(probe_ret).protocol = FTP
    /\ ~Val(probe_ret).connected
    /\ PairOf(WWServer("caller"), HTTPS) \in DOMAIN timing_cache
    /\ timing_cache[PairOf(WWServer("caller"), HTTPS)] # Val(probe_ret).val
    /\ Count(connects, PairOf(WWServer("caller"), FTP)) = 1
    /\ Count(connects, PairOf(WWServer("caller"), HTTPS)) = 1

\* Every candidate of get_fastest_server(protocol) has a failed probe (None)
\* recorded in the probe cache.
AllFailed(protocol) ==
    \A j \in 1..Len(get_pdb_servers) :
        /\ CacheKey(get_pdb_servers[j], protocol) \in DOMAIN timing_cache
        /\ timing_cache[CacheKey(get_pdb_servers[j], protocol)] = None

\* The last operation was get_fastest_server(protocol) and it raised.
FastestRaised(ret, protocol) ==
    /\ LastOp(ret) = "fastest"
    /\ Val(ret).protocol = protocol
    /\ Val(ret).val = <<"raised", "PDBServersConnectionError">>

\* What C27 asks of one step, for one protocol.
C27_StepFor(protocol) ==
    \* a raising get_fastest_server(protocol) stores no server for protocol and
    \* leaves a result recorded for every candidate, none of them a usable time
    /\ FastestRaised(probe_ret', protocol) =>
          /\ protocol \notin DOMAIN fastest_cache'
          /\ \A j \in 1..Len(get_pdb_servers) :
                /\ CacheKey(get_pdb_servers[j], protocol) \in DOMAIN timing_cache'
                /\ ~Truthy(timing_cache'[CacheKey(get_pdb_servers[j], protocol)])
    \* the call that follows a raising one raises too, without a connect
    /\ (/\ FastestRaised(probe_ret, protocol)
        /\ LastOp(probe_ret') = "fastest"
        /\ Val(probe_ret').protocol = protocol)
       => (FastestRaised(probe_ret', protocol) /\ ~Val(probe_ret').connected)
    \* with every candidate's failure recorded and no server stored, a step
    \* other than a cache_clear of the probe cache keeps it so, issues no
    \* connect to a candidate, and is a raise if it is get_fastest_server(protocol)
    /\ (/\ AllFailed(protocol)
        /\ protocol \notin DOMAIN fastest_cache
        /\ LastOp(probe_ret') # "timing_cache_clear")
       => /\ AllFailed(protocol)'
          /\ protocol \notin DOMAIN fastest_cache'
          /\ \A s \in ServerValues :
                Count(connects', CacheKey(s, protocol)) =
                    Count(connects, CacheKey(s, protocol))
          /\ (LastOp(probe_ret') = "fastest" /\ Val(probe_ret').protocol = protocol)
                => (FastestRaised(probe_ret', protocol) /\ ~Val(probe_ret').connected)

\* C27: a failed probe is memoized like a successful one.  Once every
\* candidate's probe for a protocol has failed, the later
\* get_fastest_server(protocol) calls raise PDBServersConnectionError again
\* without a new TCP connect, until the probe cache is cleared.
C27_FailureMemoized == [][\A protocol \in Protocols : C27_StepFor(protocol)]_vars

\* C27 witness: get_fastest_server(FTP) has just raised without connecting,
\* each candidate having been connected to once and its failure recorded.
C27_Witness ==
    /\ FastestRaised(probe_ret, FTP)
    /\ ~Val(probe_ret).connected
    /\ AllFailed(FTP)
    /\ \A j \in 1..Len(get_pdb_servers) :
          Count(connects, CacheKey(get_pdb_servers[j], FTP)) = 1

(***************************************************************************)
(* PDBList.retrieve_pdb_file and PDBList.retrieve_assembly_file.           *)
(*                                                                         *)
(* A behaviour follows one request (method, format, code, index, pdir,     *)
(* obsolete) through any number of calls.  The local tree holds the        *)
(* compressed archive path, the final path and one bystander file.  Each   *)
(* file-system or network operation of a call is one step.                 *)
(***************************************************************************)
\* A structure file has NumLines lines; a file with fewer is partially written.
NumLines == 2
\* Assembly numbers range over 1..MaxAssembly.
MaxAssembly == 2

PdbFileFormats == {"pdb", "mmCif", "xml", "mmtf", "bundle"}
AssemblyFormats == {"pdb", "mmCif"}
Codes == {"127d", "3k1q"}

\* str(int(assembly_num))
IndexStr(index) == CASE index = 1 -> "1" [] index = 2 -> "2" [] index = 3 -> "3"

Targets ==
    [method : {"retrieve_pdb_file"}, file_format : PdbFileFormats, code : Codes,
     index : {None}, pdir : {None, Some("a")}, obsolete : BOOLEAN]
    \cup
    [method : {"retrieve_assembly_file"}, file_format : AssemblyFormats, code : Codes,
     index : {Some(i) : i \in 1..MaxAssembly}, pdir : {None, Some("a")},
     obsolete : {FALSE}]

\* file_format.lower() of retrieve_assembly_file, on the formats it accepts.
LowerFormat(file_format) == IF file_format = "mmCif" THEN "mmcif" ELSE file_format

\* Mutant: the final name used as the download destination.
ArchiveNameIsFinal(t) ==
    IF t.method = "retrieve_pdb_file"
    THEN CASE t.file_format = "pdb" -> "pdb" \o t.code \o ".ent"
           [] t.file_format = "mmCif" -> t.code \o ".cif"
           [] t.file_format = "xml" -> t.code \o ".xml"
           [] t.file_format = "mmtf" -> t.code \o ".mmtf"
           [] t.file_format = "bundle" -> t.code \o "-pdb-bundle.tar"
    ELSE CASE LowerFormat(t.file_format) = "pdb" ->
                t.code \o ".pdb" \o IndexStr(Val(t.index))
           [] LowerFormat(t.file_format) = "mmcif" ->
                t.code \o "-assembly" \o IndexStr(Val(t.index)) \o ".cif"

\* archive_fn: the name the download is written to.
ArchiveName(t) ==
    IF t.method = "retrieve_pdb_file"
    THEN CASE t.file_format = "pdb" -> "pdb" \o t.code \o ".ent.gz"
           [] t.file_format = "mmCif" -> t.code \o ".cif.gz"
           [] t.file_format = "xml" -> t.code \o ".xml.gz"
           [] t.file_format = "mmtf" -> t.code
           [] t.file_format = "bundle" -> t.code \o "-pdb-bundle.tar.gz"
    ELSE CASE LowerFormat(t.file_format) = "pdb" ->
                t.code \o ".pdb" \o IndexStr(Val(t.index)) \o ".gz"
           [] LowerFormat(t.file_format) = "mmcif" ->
                t.code \o "-assembly" \o IndexStr(Val(t.index)) \o ".cif.gz"

\* The name of final_file / assembly_final_file.
FinalName(t) ==
    IF t.method = "retrieve_pdb_file"
    THEN CASE t.file_format = "pdb" -> "pdb" \o t.code \o ".ent"
           [] t.file_format = "mmCif" -> t.code \o ".cif"
           [] t.file_format = "xml" -> t.code \o ".xml"
           [] t.file_format = "mmtf" -> t.code \o ".mmtf"
           [] t.file_format = "bundle" -> t.code \o "-pdb-bundle.tar"
    ELSE \* archive_fn[:-3]
         SubSeq(ArchiveName(t), 1, Len(ArchiveName(t)) - 3)

\* path: pdir, or the PDB-style tree under local_pdb ("."), or under
\* obsolete_pdb ("./obsolete") for an obsolete entry; flat_tree is False.
LocalDir(t) ==
    IF ~IsNone(t.pdir) THEN Val(t.pdir)
    ELSE (IF t.obsolete THEN "./obsolete" ELSE ".") \o "/" \o SubSeq(t.code, 2, 3)

\* os.path.join(path, name)
Join(dir, name) == dir \o "/" \o name

ArchivePath(t) == Join(LocalDir(t), ArchiveName(t))
FinalPath(t) == Join(LocalDir(t), FinalName(t))
\* Another file of the same directory, which no call names.
BystanderPath(t) == Join(LocalDir(t), "pdb1abc.ent")

\* File contents.  A structure file: which version, and how many lines are
\* written.  A downloaded archive: how many lines gzip can read from it, and
\* whether it then ends cleanly (a truncated or corrupt archive does not).
OldFile == [kind |-> "structure", version |-> "old", lines |-> NumLines]
NewFile(n) == [kind |-> "structure", version |-> "new", lines |-> n]
PartialArchive == [kind |-> "gz", good |-> 0, intact |-> FALSE]
Archive(good, intact) == [kind |-> "gz", good |-> good, intact |-> intact]
DownloadedArchives ==
    {Archive(NumLines, TRUE)} \cup {Archive(k, FALSE) : k \in 0..(NumLines - 1)}

Exists(tree, path) == path \in DOMAIN tree
Remove(tree, path) == [x \in DOMAIN tree \ {path} |-> tree[x]]

\* The exceptions urlretrieve raises: OSError (URLError, HTTPError for an absent
\* remote file, ContentTooShortError, socket errors) or another exception
\* (http.client.HTTPException, ValueError).
FetchErrors == {"OSError", "Exception"}

\* Mutant: the test looks for the compressed download instead of the final file.
SkipDownloadChecksArchive(overwrite, tree, t) == ~overwrite /\ Exists(tree, ArchivePath(t))

\* Mutant: the overwrite flag read the wrong way round.
SkipDownloadInverted(overwrite, tree, t) == overwrite /\ Exists(tree, FinalPath(t))

\* if not overwrite: if os.path.exists(final_file): ... return final_file
SkipDownload(overwrite, tree, t) == ~overwrite /\ Exists(tree, FinalPath(t))

\* How a call ends when urlretrieve raised err.  retrieve_pdb_file catches
\* OSError, prints "Desired structure doesn't exist" and returns final_file;
\* anything else, and everything in retrieve_assembly_file, is raised.
AfterFetchError(t, err) ==
    IF t.method = "retrieve_pdb_file" /\ err = "OSError"
    THEN <<"returned", FinalPath(t)>>
    ELSE <<"raised", err>>

\* Mutant: the archive is left behind.
RemoveArchiveForgotten(tree, t) == tree

\* os.remove(filename)
RemoveArchive(tree, t) == Remove(tree, ArchivePath(t))

NewCall(overwrite, tree, t) ==
    [overwrite |-> overwrite,
     final_existed |-> Exists(tree, FinalPath(t)),
     fetches |-> 0,
     fetch_failed |-> FALSE,
     outcome |-> None]

InitRetrieve ==
    /\ target \in {Some(t) : t \in Targets}
    /\ dir_exists \in BOOLEAN
    /\ fs \in IF dir_exists
              THEN { << >>,
                     (FinalPath(Val(target)) :> OldFile),
                     (BystanderPath(Val(target)) :> OldFile),
                     (FinalPath(Val(target)) :> OldFile) @@
                         (BystanderPath(Val(target)) :> OldFile) }
              ELSE { << >> }
    /\ pc = "idle"
    /\ call = None
    /\ prev_call = None
    /\ sel_pc = "done"
    /\ sel_protocol = None
    /\ sel_servers = << >>
    /\ sel_timings = << >>
    /\ sel_i = 0
    /\ fastest_server = None
    /\ fastest_timing = None
    /\ sel_result = None
    /\ timing_cache = << >>
    /\ fastest_cache = << >>
    /\ connects = << >>
    /\ probe_ret = None
    /\ asm_pc = "done"
    /\ available = 0
    /\ assembly_index = 0
    /\ next_assembly = FALSE
    /\ attempts = << >>
    /\ last_response = None
    /\ request = None
    /\ result = None
    /\ legacy_server = None
    /\ legacy_result = None
    /\ threads = << >>
    /\ upd_pc = "done"
    /\ upd_codes = << >>
    /\ upd_i = 0
    /\ upd_log = << >>

\* The call up to the download: os.makedirs(path) when path is missing, then
\* the test that skips the download.
Begin ==
    /\ pc = "idle"
    /\ \E overwrite \in BOOLEAN :
          LET t == Val(target)
              c == NewCall(overwrite, fs, t)
          IN  /\ dir_exists' = TRUE
              /\ prev_call' = call
              /\ IF SkipDownload(overwrite, fs, t)
                 THEN /\ call' = Some([c EXCEPT !.outcome = Some(<<"returned", FinalPath(t)>>)])
                      /\ pc' = "idle"
                 ELSE /\ call' = Some(c)
                      /\ pc' = "urlretrieve"
    /\ UNCHANGED <<target, fs>>
    /\ UNCHANGED <<selVars, probeVars, asmVars, fmtVars, legVars, thrVars, updVars>>

\* urlretrieve(url, filename) raises before it opens filename (the remote file
\* is absent, the server is unreachable).
UrlOpenFails ==
    /\ pc = "urlretrieve"
    /\ \E err \in FetchErrors :
          call' = Some([Val(call) EXCEPT !.fetches = 1, !.fetch_failed = TRUE,
                            !.outcome = Some(AfterFetchError(Val(target), err))])
    /\ pc' = "idle"
    /\ UNCHANGED <<target, dir_exists, fs, prev_call>>
    /\ UNCHANGED <<selVars, probeVars, asmVars, fmtVars, legVars, thrVars, updVars>>

\* urlretrieve got a response and opened filename for writing.
UrlOpenOk ==
    /\ pc = "urlretrieve"
    /\ call' = Some([Val(call) EXCEPT !.fetches = 1])
    /\ fs' = Put(fs, ArchivePath(Val(target)), PartialArchive)
    /\ pc' = "download"
    /\ UNCHANGED <<target, dir_exists, prev_call>>
    /\ UNCHANGED <<selVars, probeVars, asmVars, fmtVars, legVars, thrVars, updVars>>

\* The transfer breaks off: urlretrieve raises, filename is left incomplete.
DownloadFails ==
    /\ pc = "download"
    /\ \E err \in FetchErrors :
          call' = Some([Val(call) EXCEPT !.fetch_failed = TRUE,
                            !.outcome = Some(AfterFetchError(Val(target), err))])
    /\ pc' = "idle"
    /\ UNCHANGED <<target, dir_exists, fs, prev_call>>
    /\ UNCHANGED <<selVars, probeVars, asmVars, fmtVars, legVars, thrVars, updVars>>

\* urlretrieve returns: filename holds what the server sent.
DownloadDone ==
    /\ pc = "download"
    /\ \E content \in DownloadedArchives :
          fs' = Put(fs, ArchivePath(Val(target)), content)
    /\ pc' = "gzip_open"
    /\ UNCHANGED <<target, dir_exists, call, prev_call>>
    /\ UNCHANGED <<selVars, probeVars, asmVars, fmtVars, legVars, thrVars, updVars>>

\* with gzip.open(filename, "rb") as gz: with open(final_file, "wb") as out:
\* the final file is created, or truncated, in place.
OpenFinal ==
    /\ pc = "gzip_open"
    /\ fs' = Put(fs, FinalPath(Val(target)), NewFile(0))
    /\ pc' = "writelines"
    /\ UNCHANGED <<target, dir_exists, call, prev_call>>
    /\ UNCHANGED <<selVars, probeVars, asmVars, fmtVars, legVars, thrVars, updVars>>

\* out.writelines(gz): one more decompressed line reaches the final file.
WriteLine ==
    /\ pc = "writelines"
    /\ LET t == Val(target) IN
          /\ fs[FinalPath(t)].lines < fs[ArchivePath(t)].good
          /\ fs' = Put(fs, FinalPath(t), NewFile(fs[FinalPath(t)].lines + 1))
    /\ UNCHANGED <<target, dir_exists, pc, call, prev_call>>
    /\ UNCHANGED <<selVars, probeVars, asmVars, fmtVars, legVars, thrVars, updVars>>

\* gz is exhausted and both files are closed.
WriteEnd ==
    /\ pc = "writelines"
    /\ LET t == Val(target) IN
          /\ fs[FinalPath(t)].lines = fs[ArchivePath(t)].good
          /\ fs[ArchivePath(t)].intact
    /\ pc' = "remove"
    /\ UNCHANGED <<target, dir_exists, fs, call, prev_call>>
    /\ UNCHANGED <<selVars, probeVars, asmVars, fmtVars, legVars, thrVars, updVars>>

\* gzip raises on a truncated or corrupt archive (EOFError, BadGzipFile): the
\* statement is outside the try, so the exception leaves the call.
GzipFails ==
    /\ pc = "writelines"
    /\ LET t == Val(target) IN
          /\ fs[FinalPath(t)].lines = fs[ArchivePath(t)].good
          /\ ~fs[ArchivePath(t)].intact
    /\ call' = Some([Val(call) EXCEPT !.outcome = Some(<<"raised", "gzip">>)])
    /\ pc' = "idle"
    /\ UNCHANGED <<target, dir_exists, fs, prev_call>>
    /\ UNCHANGED <<selVars, probeVars, asmVars, fmtVars, legVars, thrVars, updVars>>

\* os.remove(filename); return final_file
RemoveAndReturn ==
    /\ pc = "remove"
    /\ fs' = RemoveArchive(fs, Val(target))
    /\ call' = Some([Val(call) EXCEPT
                        !.outcome = Some(<<"returned", FinalPath(Val(target))>>)])
    /\ pc' = "idle"
    /\ UNCHANGED <<target, dir_exists, prev_call>>
    /\ UNCHANGED <<selVars, probeVars, asmVars, fmtVars, legVars, thrVars, updVars>>

\* The call is interrupted part-way (KeyboardInterrupt, the process is killed).
Interrupt ==
    /\ pc # "idle"
    /\ call' = Some([Val(call) EXCEPT !.outcome = Some(<<"interrupted">>)])
    /\ pc' = "idle"
    /\ UNCHANGED <<target, dir_exists, fs, prev_call>>
    /\ UNCHANGED <<selVars, probeVars, asmVars, fmtVars, legVars, thrVars, updVars>>

NextRetrieve ==
    \/ Begin
    \/ UrlOpenFails
    \/ UrlOpenOk
    \/ DownloadFails
    \/ DownloadDone
    \/ OpenFinal
    \/ WriteLine
    \/ WriteEnd
    \/ GzipFails
    \/ RemoveAndReturn
    \/ Interrupt

SpecRetrieve == InitRetrieve /\ [][NextRetrieve]_vars

(***************************************************************************)
(* Claims about retrieval, checked under SpecRetrieve.                     *)
(***************************************************************************)
Idle == pc = "idle" /\ ~IsNone(call)
Outcome(c) == Val(Val(c).outcome)
Returned(c) == Outcome(c)[1] = "returned"
Raised(c) == Outcome(c)[1] = "raised"
Interrupted(c) == Outcome(c)[1] = "interrupted"
Complete(file) == file.kind = "structure" /\ file.lines = NumLines
\* The call fetched, and neither the fetch nor the decompression failed.
Succeeded(c) == Returned(c) /\ Val(c).fetches = 1 /\ ~Val(c).fetch_failed

\* C5: a call with overwrite=false that finds a file at the final path returns
\* that path at once, issues no fetch, and leaves the local tree as it was.
C5_Step ==
    (pc = "idle" /\ ~Val(call').overwrite /\ Exists(fs, FinalPath(Val(target))))
        => /\ pc' = "idle"
           /\ Val(call').fetches = 0
           /\ Outcome(call') = <<"returned", FinalPath(Val(target))>>
           /\ fs' = fs
           /\ dir_exists' = dir_exists
C5_SkipExisting == [][C5_Step]_vars
C5_Witness ==
    /\ Idle
    /\ ~Val(call).overwrite
    /\ Val(call).final_existed
    /\ Val(call).fetches = 0
    /\ Returned(call)
    /\ Exists(fs, BystanderPath(Val(target)))

\* Two consecutive completed calls with overwrite=false.
TwoCalls ==
    /\ Idle
    /\ ~IsNone(prev_call)
    /\ ~Val(prev_call).overwrite
    /\ ~Val(call).overwrite
    /\ ~Interrupted(prev_call)
    /\ ~Interrupted(call)
SecondSkips ==
    /\ Val(call).fetches = 0
    /\ Outcome(call) = <<"returned", FinalPath(Val(target))>>

\* C6 as stated, read with no file at the final path before the first call:
\* the two calls issue exactly one fetch in total, and the second returns the
\* path the first returned without fetching.
C6_AsStated ==
    (TwoCalls /\ ~Val(prev_call).final_existed)
        => /\ Val(prev_call).fetches + Val(call).fetches = 1
           /\ SecondSkips
           /\ Outcome(call) = Outcome(prev_call)

\* C6: when no file is at the final path before the first call and the first
\* call's fetch and decompression succeed, the two calls issue exactly one
\* fetch in total and the second returns the same path without fetching.
C6_OneFetchAfterSuccess ==
    (TwoCalls /\ ~Val(prev_call).final_existed /\ Succeeded(prev_call))
        => /\ Val(prev_call).fetches + Val(call).fetches = 1
           /\ SecondSkips
           /\ Outcome(call) = Outcome(prev_call)
C6_Witness ==
    /\ TwoCalls
    /\ ~Val(prev_call).final_existed
    /\ Succeeded(prev_call)
    /\ Val(call).fetches = 0

\* C7 as stated: a call whose fetch failed ends by raising, and does not
\* return the local path.
C7_AsStated ==
    (Idle /\ Val(call).fetch_failed /\ ~Interrupted(call)) => Raised(call)

\* C8: after a call that started with no file at the final path and whose
\* fetch failed, there is no file at the final path.
C8_FailedFetchLeavesNoFinal ==
    (Idle /\ Val(call).fetch_failed /\ ~Val(call).final_existed)
        => ~Exists(fs, FinalPath(Val(target)))
C8_Witness ==
    /\ Idle
    /\ Val(call).fetch_failed
    /\ ~Val(call).final_existed
    /\ Exists(fs, ArchivePath(Val(target)))
    /\ ~Exists(fs, FinalPath(Val(target)))

\* C9 as stated: whenever a file is at the final path, it is a complete file,
\* the previous one or the new one.
C9_AsStated ==
    Exists(fs, FinalPath(Val(target))) => Complete(fs[FinalPath(Val(target))])

\* The uncompressed name: the transport name without its ".gz", and the code
\* with ".mmtf" for the one transport name that has no suffix.
EndsWithGz(name) == Len(name) >= 3 /\ SubSeq(name, Len(name) - 2, Len(name)) = ".gz"
UncompressedName(t) ==
    IF EndsWithGz(ArchiveName(t))
    THEN SubSeq(ArchiveName(t), 1, Len(ArchiveName(t)) - 3)
    ELSE t.code \o ".mmtf"

\* C10: after a call that fetched and decompressed successfully, the complete
\* decompressed file is at the returned path, which carries the uncompressed
\* name, and no file is left at the path of the compressed download.
C10_DecompressedAndCleaned ==
    (Idle /\ Succeeded(call))
        => LET t == Val(target) IN
           /\ Outcome(call)[2] = Join(LocalDir(t), UncompressedName(t))
           /\ Exists(fs, Outcome(call)[2])
           /\ fs[Outcome(call)[2]] = NewFile(NumLines)
           /\ ~Exists(fs, ArchivePath(t))
C10_Witness ==
    /\ Idle
    /\ Succeeded(call)
    /\ EndsWithGz(ArchiveName(Val(target)))
    /\ fs[FinalPath(Val(target))] = NewFile(NumLines)

\* What C29 asks of one step.  A call whose fetch fails consists of the steps
\* up to the download and of the failure of urlretrieve, and of nothing else.
C29_Step ==
    LET final == FinalPath(Val(target)) IN
    \* a call with a failed fetch ends in urlretrieve
    /\ (pc' = "idle" /\ ~IsNone(call') /\ Val(call').fetch_failed /\ pc # "idle")
          => pc \in {"urlretrieve", "download"}
    \* the steps up to the download, and the failure of the download, leave
    \* the file at the final path as it was
    /\ (/\ Exists(fs, final)
        /\ \/ pc \in {"idle", "urlretrieve"}
           \/ pc = "download" /\ Val(call').fetch_failed)
          => (Exists(fs', final) /\ fs'[final] = fs[final])
    \* and a call with overwrite=True that started with the file and ended
    \* with a failed fetch ends with a file at the final path
    /\ (/\ pc' = "idle" /\ ~IsNone(call')
        /\ Val(call').overwrite /\ Val(call').final_existed /\ Val(call').fetch_failed)
          => Exists(fs', final)

\* C29: under retrieve_pdb_file with overwrite=true, when a complete file is
\* at the final path and the fetch fails, the file at the final path keeps its
\* previous content: a failed overwrite neither removes nor truncates it.
C29_FailedOverwriteKeepsFile == [][C29_Step]_vars

\* C29 witness: a call with overwrite=true found the complete previous file,
\* its download broke off leaving an incomplete archive, and the previous
\* file is still at the final path.
C29_Witness ==
    /\ Idle
    /\ Val(target).method = "retrieve_pdb_file"
    /\ Val(call).overwrite
    /\ Val(call).final_existed
    /\ Val(call).fetch_failed
    /\ Exists(fs, ArchivePath(Val(target)))
    /\ fs[ArchivePath(Val(target))] = PartialArchive
    /\ fs[FinalPath(Val(target))] = OldFile

(***************************************************************************)
(* PDBList.download_assemblies.                                            *)
(*                                                                         *)
(* The server holds assemblies 1..available of the entry.  Each iteration  *)
(* of the while loop is one step: it calls retrieve_assembly_file with the *)
(* next index, and the call returns, raises URLError (the file is not on   *)
(* the server, or the network failed) or raises another exception.         *)
(***************************************************************************)
\* The server holds at most MaxAvailable assemblies of the entry.
MaxAvailable == 21
\* max_index = 20  # safeguard
max_index == 20

\* Mutant: the safeguard compared with <= .
LoopGuardOffByOne(next, index) == next /\ index <= max_index

\* while next_assembly and assembly_index < max_index
LoopGuard(next, index) == next /\ index < max_index

\* How retrieve_assembly_file(assembly_num=index) can end.
Responses(index) ==
    (IF index <= available THEN {"found"} ELSE {"not_found"})
        \cup {"URLError", "Exception"}

\* not-found reaches the caller as URLError (HTTPError, or the wrapped ftp error).
IsURLError(response) == response \in {"not_found", "URLError"}

InitAssemblies ==
    /\ asm_pc = "loop"
    /\ available \in 0..MaxAvailable
    /\ assembly_index = 0
    /\ next_assembly = TRUE
    /\ attempts = << >>
    /\ last_response = None
    /\ sel_pc = "done"
    /\ sel_protocol = None
    /\ sel_servers = << >>
    /\ sel_timings = << >>
    /\ sel_i = 0
    /\ fastest_server = None
    /\ fastest_timing = None
    /\ sel_result = None
    /\ timing_cache = << >>
    /\ fastest_cache = << >>
    /\ connects = << >>
    /\ probe_ret = None
    /\ target = None
    /\ dir_exists = FALSE
    /\ fs = << >>
    /\ pc = "idle"
    /\ call = None
    /\ prev_call = None
    /\ request = None
    /\ result = None
    /\ legacy_server = None
    /\ legacy_result = None
    /\ threads = << >>
    /\ upd_pc = "done"
    /\ upd_codes = << >>
    /\ upd_i = 0
    /\ upd_log = << >>

\* One iteration: assembly_index += 1, the call, and the except clause.
AssemblyAttempt ==
    /\ asm_pc = "loop"
    /\ LoopGuard(next_assembly, assembly_index)
    /\ assembly_index' = assembly_index + 1
    /\ attempts' = Append(attempts, assembly_index + 1)
    /\ \E response \in Responses(assembly_index + 1) :
          /\ last_response' = Some(response)
          /\ next_assembly' = IF IsURLError(response) THEN FALSE ELSE next_assembly
          /\ asm_pc' = IF response = "Exception" THEN "raised" ELSE "loop"
    /\ UNCHANGED available
    /\ UNCHANGED <<selVars, probeVars, retVars, fmtVars, legVars, thrVars, updVars>>

\* The loop condition is false: download_assemblies returns.
AssembliesReturn ==
    /\ asm_pc = "loop"
    /\ ~LoopGuard(next_assembly, assembly_index)
    /\ asm_pc' = "done"
    /\ UNCHANGED <<available, assembly_index, next_assembly, attempts, last_response>>
    /\ UNCHANGED <<selVars, probeVars, retVars, fmtVars, legVars, thrVars, updVars>>

NextAssemblies ==
    \/ AssemblyAttempt
    \/ AssembliesReturn

SpecAssemblies == InitAssemblies /\ [][NextAssemblies]_vars

\* Every call of retrieve_assembly_file returns or raises, and the loop goes on.
FairAssemblies == SpecAssemblies /\ WF_vars(NextAssemblies)

(***************************************************************************)
(* Claims about download_assemblies, checked under FairAssemblies.         *)
(***************************************************************************)
AttemptsInOrder == \A k \in 1..Len(attempts) : attempts[k] = k
AttemptsBounded == \A k \in 1..Len(attempts) : attempts[k] <= 20
\* A step taken when the latest response was not-found makes no attempt.
NoAttemptAfterNotFound ==
    last_response = Some("not_found") => attempts' = attempts
Terminated == asm_pc \in {"done", "raised"}

\* C11: the indices attempted are 1, 2, 3, ... in order and without gaps, no
\* attempt follows a not-found response, no index above 20 is attempted, and
\* the loop terminates.
C11_AssembliesLoop ==
    /\ [](AttemptsInOrder /\ AttemptsBounded)
    /\ [][NoAttemptAfterNotFound]_vars
    /\ <>Terminated
C11_Witness ==
    /\ asm_pc = "done"
    /\ Len(attempts) = 20
    /\ last_response = Some("found")

(***************************************************************************)
(* PDBFileFormat (names and paths) and PDBServer (hosts and URLs).         *)
(***************************************************************************)
\* Truthiness of an optional bool and of an optional string.
TruthyBool(x) == ~IsNone(x) /\ Val(x)
TruthyStr(x) == ~IsNone(x) /\ Val(x) # ""

\* str() of a non-negative integer, digit by digit.
Digit(d) == SubSeq("0123456789", d + 1, d + 1)
RECURSIVE NatStr(_)
NatStr(n) == IF n < 10 THEN Digit(n) ELSE NatStr(n \div 10) \o Digit(n % 10)
IntStr(i) == IF i < 0 THEN "-" \o NatStr(0 - i) ELSE NatStr(i)
\* What "{index}" shows for an optional integer.
PyStr(x) == IF IsNone(x) THEN "None" ELSE IntStr(Val(x))

\* The position of the first "}" of s at or after i (0 when there is none).
RECURSIVE Closing(_, _)
Closing(s, i) ==
    IF i > Len(s) THEN 0
    ELSE IF SubSeq(s, i, i) = "}" THEN i ELSE Closing(s, i + 1)

\* pattern.format(**fields): every {key} is replaced by fields[key].
RECURSIVE Format(_, _)
Format(pattern, fields) ==
    IF pattern = "" THEN ""
    ELSE IF SubSeq(pattern, 1, 1) = "{"
         THEN LET close == Closing(pattern, 2)
              IN  fields[SubSeq(pattern, 2, close - 1)]
                      \o Format(SubSeq(pattern, close + 1, Len(pattern)), fields)
         ELSE SubSeq(pattern, 1, 1) \o Format(SubSeq(pattern, 2, Len(pattern)), fields)

\* The field defaults of the dataclass PDBFileFormat.
PDBFileFormatDefaults ==
    [filename_pattern |-> "{code}",
     obsolete_directory_pattern |-> None,
     compressed_extension |-> Some("gz"),
     multiple_files |-> None,
     subdomain |-> None,
     is_located_into_pdb_directory |-> TRUE,
     servers |-> PDB_SERVERS,
     protocols |-> PDBServerProtocol]
PDBFileFormat(fields) == fields @@ PDBFileFormatDefaults

FILE_FORMATS ==
    [PDB |-> PDBFileFormat(
        [label |-> "PDB", extension |-> "ent", filename_pattern |-> "pdb{code}",
         directory_pattern |-> "/data/structures/divided/pdb/{short_code}/{filename}",
         obsolete_directory_pattern |->
             Some("/data/structures/obsolete/pdb/{short_code}/{filename}")]),
     PDB_ASSEMBLY |-> PDBFileFormat(
        [label |-> "PDB (biological assembly)", extension |-> "pdb{index}",
         directory_pattern |-> "/data/biounit/PDB/divided/{short_code}/{filename}",
         multiple_files |-> Some(TRUE)]),
     MMCIF |-> PDBFileFormat(
        [label |-> "PDBx/mmCIF", extension |-> "cif",
         directory_pattern |-> "/data/structures/divided/mmCIF/{short_code}/{filename}",
         obsolete_directory_pattern |->
             Some("/data/structures/obsolete/mmCIF/{short_code}/{filename}")]),
     MMCIF_ASSEMBLY |-> PDBFileFormat(
        [label |-> "PDBx/mmCIF (biological assembly)", extension |-> "cif",
         filename_pattern |-> "{code}-assembly{index}",
         directory_pattern |-> "/data/assemblies/mmCIF/divided/{short_code}/{filename}",
         multiple_files |-> Some(TRUE)]),
     PDBML |-> PDBFileFormat(
        [label |-> "PDBML/XML", extension |-> "xml",
         directory_pattern |-> "/data/structures/divided/XML/{short_code}/{filename}",
         obsolete_directory_pattern |->
             Some("/data/structures/obsolete/XML/{short_code}/{filename}")]),
     PDB_BUNDLE |-> PDBFileFormat(
        [label |-> "PDB bundle", filename_pattern |-> "{code}-pdb-bundle",
         extension |-> "tar",
         directory_pattern |-> "/compatible/pdb_bundle/{short_code}/{code}/{filename}"]),
     MMTF |-> PDBFileFormat(
        [label |-> "MMTF", extension |-> "",
         directory_pattern |-> "/v1.0/full/{filename}",
         compressed_extension |-> Some(""),
         servers |-> <<PDB_SERVERS[2]>>,
         subdomain |-> Some("mmtf"),
         protocols |-> <<HTTPS>>,
         is_located_into_pdb_directory |-> FALSE])]

BuiltinFormats == {FILE_FORMATS[k] : k \in DOMAIN FILE_FORMATS}

\* A format a caller declares without compressed files (compressed_extension=None).
PlainFormat ==
    PDBFileFormat(
        [label |-> "plain", extension |-> "txt",
         directory_pattern |-> "/plain/{short_code}/{filename}",
         compressed_extension |-> None])

Returns(value) == <<"returned", value>>
Raises(error, message) == <<"raised", error, message>>
IsReturned(r) == r[1] = "returned"
IsRaised(r) == r[1] = "raised"

has_obsolete_file(fmt) == ~IsNone(fmt.obsolete_directory_pattern)
has_compressed_file(fmt) == ~IsNone(fmt.compressed_extension)

\* if self.multiple_files and not index
MissingIndex(fmt, index) == TruthyBool(fmt.multiple_files) /\ ~Truthy(index)

\* Mutant: an empty compressed extension taken for a missing one.
NoCompressedFileIfEmpty(fmt, compressed) ==
    TruthyBool(compressed) /\ ~TruthyStr(fmt.compressed_extension)

\* if compressed and not self.has_compressed_file
NoCompressedFile(fmt, compressed) == TruthyBool(compressed) /\ ~has_compressed_file(fmt)

\* Mutant: the compressed extension appended whenever compressed is true.
ExtraExtensionAlways(fmt, compressed) ==
    IF TruthyBool(compressed) THEN "." \o Val(fmt.compressed_extension) ELSE ""

\* extra_extension
ExtraExtension(fmt, compressed) ==
    IF TruthyBool(compressed) /\ TruthyStr(fmt.compressed_extension)
    THEN "." \o Val(fmt.compressed_extension)
    ELSE ""

build_name(fmt, code, compressed, index) ==
    IF NoCompressedFile(fmt, compressed)
    THEN Raises("BuildPDBFilePathError", "Compressed files do not exist for this format")
    ELSE IF MissingIndex(fmt, index)
    THEN Raises("BuildPDBFilePathError",
                "Building file name for this format require file index")
    ELSE LET fields == [code |-> code, index |-> PyStr(index)]
             filename == Format(fmt.filename_pattern, fields)
             extension == IF fmt.extension # ""
                          THEN "." \o Format(fmt.extension, fields)
                          ELSE ""
         IN  Returns(filename \o extension \o ExtraExtension(fmt, compressed))

\* Mutant: the regular pattern stands in for a missing obsolete one.
ObsoleteMissingNever(fmt, obsolete) == FALSE

\* if obsolete and not self.has_obsolete_file
ObsoleteMissing(fmt, obsolete) == obsolete /\ ~has_obsolete_file(fmt)

\* Mutant: the first two characters of the code.
short_code_first_two(code) == SubSeq(code, 1, 2)

\* code[1:3]
short_code(code) == SubSeq(code, 2, 3)

build_path(fmt, code, compressed, obsolete, index) ==
    IF ObsoleteMissing(fmt, obsolete)
    THEN Raises("BuildPDBFilePathError", "Obsolete files do not exist for this format")
    ELSE LET pattern == IF obsolete THEN fmt.obsolete_directory_pattern
                        ELSE Some(fmt.directory_pattern)
             name == build_name(fmt, code, compressed, index)
         IN  \* pattern.format is looked up before its arguments are evaluated
             IF IsNone(pattern)
             THEN Raises("AttributeError", "'NoneType' object has no attribute 'format'")
             ELSE IF IsRaised(name) THEN name
             ELSE Returns(Format(Val(pattern),
                                 [code |-> code,
                                  short_code |-> short_code(code),
                                  filename |-> name[2],
                                  index |-> PyStr(index)]))

InSeq(x, seq) == \E i \in 1..Len(seq) : seq[i] = x

\* PDBServerProtocol.method: self.name.lower()
method(protocol) == IF protocol = HTTPS THEN "https" ELSE "ftp"

\* Mutant: the protocol's subdomain before the format's.
subdomain_protocol_first(server, protocol, fmt) ==
    IF ~InSeq(protocol, fmt.protocols)
    THEN Raises("UnsupportedProtocolError",
                "File format is not available using this protocol")
    ELSE IF protocol = FTP THEN Returns(server.ftp_subdomain)
    ELSE IF protocol = HTTPS THEN Returns(server.http_subdomain)
    ELSE Returns(Val(fmt.subdomain))

\* PDBServer.subdomain
subdomain(server, protocol, fmt) ==
    IF ~InSeq(protocol, fmt.protocols)
    THEN Raises("UnsupportedProtocolError",
                "File format is not available using this protocol")
    ELSE IF TruthyStr(fmt.subdomain) THEN Returns(Val(fmt.subdomain))
    ELSE IF protocol = FTP THEN Returns(server.ftp_subdomain)
    ELSE IF protocol = HTTPS THEN Returns(server.http_subdomain)
    ELSE Raises("UnsupportedProtocolError",
                "Unable to determine the subdomain corresponding to this protocol")

build_full_domain(server, protocol, fmt) ==
    LET sub == subdomain(server, protocol, fmt)
    IN  IF IsRaised(sub) THEN sub ELSE Returns(sub[2] \o "." \o server.domain)

\* Mutant: the pdb directory put in front of every path.
RootDirectoryAlways(server, fmt) == server.pdb_directory

\* self.pdb_directory if file_format.is_located_into_pdb_directory else ''
RootDirectory(server, fmt) ==
    IF fmt.is_located_into_pdb_directory THEN server.pdb_directory ELSE ""

build_file_url(server, code, fmt, protocol, compressed, obsolete, index) ==
    LET host == build_full_domain(server, protocol, fmt)
        path == build_path(fmt, code, compressed, obsolete, index)
    IN  IF IsRaised(host) THEN host
        ELSE IF IsRaised(path) THEN path
        ELSE Returns(method(protocol) \o "://" \o host[2]
                         \o RootDirectory(server, fmt) \o path[2])

\* Indices range over MinIndex..MaxIndex, and None.
MinIndex == 0 - 1
MaxIndex == 2

Servers == {PDB_SERVERS[i] : i \in 1..Len(PDB_SERVERS)}
Requests ==
    [server : Servers,
     protocol : Protocols,
     file_format : BuiltinFormats \cup {PlainFormat},
     code : Codes,
     compressed : {None, Some(FALSE), Some(TRUE)},
     obsolete : BOOLEAN,
     index : {None} \cup {Some(i) : i \in MinIndex..MaxIndex}]

InitFormat ==
    /\ request \in {Some(r) : r \in Requests}
    /\ result = None
    /\ sel_pc = "done"
    /\ sel_protocol = None
    /\ sel_servers = << >>
    /\ sel_timings = << >>
    /\ sel_i = 0
    /\ fastest_server = None
    /\ fastest_timing = None
    /\ sel_result = None
    /\ timing_cache = << >>
    /\ fastest_cache = << >>
    /\ connects = << >>
    /\ probe_ret = None
    /\ target = None
    /\ dir_exists = FALSE
    /\ fs = << >>
    /\ pc = "idle"
    /\ call = None
    /\ prev_call = None
    /\ asm_pc = "done"
    /\ available = 0
    /\ assembly_index = 0
    /\ next_assembly = FALSE
    /\ attempts = << >>
    /\ last_response = None
    /\ legacy_server = None
    /\ legacy_result = None
    /\ threads = << >>
    /\ upd_pc = "done"
    /\ upd_codes = << >>
    /\ upd_i = 0
    /\ upd_log = << >>

Answer(op, out) == Some([op |-> op, out |-> out])

BuildName ==
    /\ IsNone(result)
    /\ LET r == Val(request) IN
          result' = Answer("build_name",
                           build_name(r.file_format, r.code, r.compressed, r.index))
    /\ UNCHANGED request
    /\ UNCHANGED <<selVars, probeVars, retVars, asmVars, legVars, thrVars, updVars>>

BuildPath ==
    /\ IsNone(result)
    /\ LET r == Val(request) IN
          result' = Answer("build_path",
                           build_path(r.file_format, r.code, r.compressed,
                                      r.obsolete, r.index))
    /\ UNCHANGED request
    /\ UNCHANGED <<selVars, probeVars, retVars, asmVars, legVars, thrVars, updVars>>

Subdomain ==
    /\ IsNone(result)
    /\ LET r == Val(request) IN
          result' = Answer("subdomain", subdomain(r.server, r.protocol, r.file_format))
    /\ UNCHANGED request
    /\ UNCHANGED <<selVars, probeVars, retVars, asmVars, legVars, thrVars, updVars>>

BuildFullDomain ==
    /\ IsNone(result)
    /\ LET r == Val(request) IN
          result' = Answer("build_full_domain",
                           build_full_domain(r.server, r.protocol, r.file_format))
    /\ UNCHANGED request
    /\ UNCHANGED <<selVars, probeVars, retVars, asmVars, legVars, thrVars, updVars>>

BuildFileUrl ==
    /\ IsNone(result)
    /\ LET r == Val(request) IN
          result' = Answer("build_file_url",
                           build_file_url(r.server, r.code, r.file_format, r.protocol,
                                          r.compressed, r.obsolete, r.index))
    /\ UNCHANGED request
    /\ UNCHANGED <<selVars, probeVars, retVars, asmVars, legVars, thrVars, updVars>>

NextFormat ==
    \/ BuildName
    \/ BuildPath
    \/ Subdomain
    \/ BuildFullDomain
    \/ BuildFileUrl

SpecFormat == InitFormat /\ [][NextFormat]_vars

(***************************************************************************)
(* Claims about names, paths and URLs, checked under SpecFormat.           *)
(***************************************************************************)
Req == Val(request)
Out == Val(result).out
Called(op) == ~IsNone(result) /\ Val(result).op = op
Is(key) == Req.file_format = FILE_FORMATS[key]
Builtin == Req.file_format \in BuiltinFormats
ProtocolAllowed == InSeq(Req.protocol, Req.file_format.protocols)
ServerAllowed == InSeq(Req.server, Req.file_format.servers)
MultipleFiles == Is("PDB_ASSEMBLY") \/ Is("MMCIF_ASSEMBLY")
\* The index a format with several files needs.
IndexValid == MultipleFiles => (~IsNone(Req.index) /\ Val(Req.index) >= 1)
IncompatibleRequest == IsRaised(Out) /\ Out[2] = "BuildPDBFilePathError"
UnsupportedProtocol == IsRaised(Out) /\ Out[2] = "UnsupportedProtocolError"

\* C12 as stated: building a host or a file URL raises UnsupportedProtocolError
\* whenever the protocol or the server is not among those the format allows.
C12_AsStated ==
    ((Called("build_full_domain") \/ Called("build_file_url"))
        /\ (~ProtocolAllowed \/ ~ServerAllowed))
        => UnsupportedProtocol

\* The subdomain the claim names: the format's override when one is set, else
\* the server's subdomain for the protocol.
ClaimedSubdomain ==
    IF ~IsNone(Req.file_format.subdomain) THEN Val(Req.file_format.subdomain)
    ELSE IF Req.protocol = FTP THEN Req.server.ftp_subdomain
    ELSE Req.server.http_subdomain

\* C13: for a permitted (server, protocol, format) the subdomain, and the
\* subdomain part of the host, is the format's override when one is set and
\* otherwise the server's subdomain for the protocol.
C13_SubdomainPrecedence ==
    /\ (Called("subdomain") /\ ProtocolAllowed /\ ServerAllowed)
           => Out = Returns(ClaimedSubdomain)
    /\ (Called("build_full_domain") /\ ProtocolAllowed /\ ServerAllowed)
           => Out = Returns(ClaimedSubdomain \o "." \o Req.server.domain)
C13_Witness ==
    /\ Called("subdomain")
    /\ Is("MMTF")
    /\ Req.server = PDB_SERVERS[2]
    /\ Req.protocol = HTTPS
    /\ Req.server.http_subdomain = "files"
    /\ Out = Returns("mmtf")

ClaimedScheme == IF Req.protocol = FTP THEN "ftp" ELSE "https"
ClaimedPath ==
    build_path(Req.file_format, Req.code, Req.compressed, Req.obsolete, Req.index)

\* C14: for a built-in format, a permitted protocol and a request build_path
\* accepts, the URL is scheme://subdomain.domain, then the server's pdb
\* directory unless the format is MMTF, then the path of build_path.
C14_FileUrl ==
    (Called("build_file_url") /\ Builtin /\ ProtocolAllowed /\ IsReturned(ClaimedPath))
        => Out = Returns(ClaimedScheme \o "://" \o ClaimedSubdomain \o "."
                             \o Req.server.domain
                             \o (IF Is("MMTF") THEN "" ELSE Req.server.pdb_directory)
                             \o ClaimedPath[2])
C14_Witness ==
    /\ Called("build_file_url")
    /\ Is("PDB")
    /\ Req.server = PDB_SERVERS[3]
    /\ Out = Returns("ftp://ftp.ebi.ac.uk/pub/databases/pdb"
                         \o "/data/structures/divided/pdb/27/pdb127d.ent.gz")

C16_AsStated ==
    (Called("build_name") /\ MultipleFiles)
        => IF ~IsNone(Req.index) /\ Val(Req.index) >= 1
           THEN IsReturned(Out)
           ELSE IncompatibleRequest

\* The directory of obsolete entries the claim expects for PDB, MMCIF and PDBML.
ClaimedObsoleteKind ==
    CASE Is("PDB") -> "pdb" [] Is("MMCIF") -> "mmCIF" [] Is("PDBML") -> "XML"
ClaimedName == build_name(Req.file_format, Req.code, Req.compressed, Req.index)

\* C17: with obsolete=true build_path raises the incompatible-request error for
\* PDB_ASSEMBLY, MMCIF_ASSEMBLY, PDB_BUNDLE and MMTF whatever the other
\* arguments, and returns the path under the obsolete directory for PDB,
\* MMCIF and PDBML.
C17_ObsoletePattern ==
    (Called("build_path") /\ Req.obsolete)
        => /\ (Is("PDB_ASSEMBLY") \/ Is("MMCIF_ASSEMBLY") \/ Is("PDB_BUNDLE") \/ Is("MMTF"))
                  => IncompatibleRequest
           /\ (Is("PDB") \/ Is("MMCIF") \/ Is("PDBML"))
                  => Out = Returns("/data/structures/obsolete/" \o ClaimedObsoleteKind
                                       \o "/" \o SubSeq(Req.code, 2, 3)
                                       \o "/" \o ClaimedName[2])
C17_Witness ==
    /\ Called("build_path")
    /\ Req.obsolete
    /\ Is("PDB_BUNDLE")
    /\ Req.compressed = Some(TRUE)
    /\ IncompatibleRequest

\* The names of the built-in formats, written out.
ClaimedIndex == IntStr(Val(Req.index))
ClaimedBaseName ==
    CASE Is("PDB") -> "pdb" \o Req.code \o ".ent"
      [] Is("PDB_ASSEMBLY") -> Req.code \o ".pdb" \o ClaimedIndex
      [] Is("MMCIF") -> Req.code \o ".cif"
      [] Is("MMCIF_ASSEMBLY") -> Req.code \o "-assembly" \o ClaimedIndex \o ".cif"
      [] Is("PDBML") -> Req.code \o ".xml"
      [] Is("PDB_BUNDLE") -> Req.code \o "-pdb-bundle.tar"
      [] Is("MMTF") -> Req.code
ClaimedFileName ==
    ClaimedBaseName
        \o (IF Req.compressed = Some(TRUE) /\ ~Is("MMTF") THEN ".gz" ELSE "")

\* C18: for a built-in format and a valid request build_name returns the
\* templated filename, "." and the templated extension unless it is empty,
\* and "." and the compressed extension when compressed=true and the
\* extension is not empty.
C18_FileName ==
    (Called("build_name") /\ Builtin /\ IndexValid) => Out = Returns(ClaimedFileName)
C18_Witness ==
    /\ Called("build_name")
    /\ Is("PDB_ASSEMBLY")
    /\ Req.code = "127d"
    /\ Req.index = Some(1)
    /\ Req.compressed # Some(TRUE)
    /\ Out = Returns("127d.pdb1")

\* The directories of the built-in formats, written out.
ClaimedDirectory ==
    LET cc == SubSeq(Req.code, 2, 3) IN
    CASE Is("PDB") -> "/data/structures/" \o (IF Req.obsolete THEN "obsolete" ELSE "divided")
                          \o "/pdb/" \o cc
      [] Is("PDB_ASSEMBLY") -> "/data/biounit/PDB/divided/" \o cc
      [] Is("MMCIF") -> "/data/structures/" \o (IF Req.obsolete THEN "obsolete" ELSE "divided")
                            \o "/mmCIF/" \o cc
      [] Is("MMCIF_ASSEMBLY") -> "/data/assemblies/mmCIF/divided/" \o cc
      [] Is("PDBML") -> "/data/structures/" \o (IF Req.obsolete THEN "obsolete" ELSE "divided")
                            \o "/XML/" \o cc
      [] Is("PDB_BUNDLE") -> "/compatible/pdb_bundle/" \o cc \o "/" \o Req.code
      [] Is("MMTF") -> "/v1.0/full"
ObsoleteValid == Req.obsolete => (Is("PDB") \/ Is("MMCIF") \/ Is("PDBML"))

\* C19: for a built-in format and a valid request build_path returns the
\* directory pattern (the obsolete one when obsolete=true) filled with the
\* code, its characters 2 and 3, and the name build_name gives.
C19_FilePath ==
    (Called("build_path") /\ Builtin /\ IndexValid /\ ObsoleteValid)
        => Out = Returns(ClaimedDirectory \o "/" \o ClaimedFileName)
C19_Witness ==
    /\ Called("build_path")
    /\ Is("MMCIF")
    /\ Req.code = "127d"
    /\ Req.compressed = Some(FALSE)
    /\ ~Req.obsolete
    /\ Out = Returns("/data/structures/divided/mmCIF/27/127d.cif")

(***************************************************************************)
(* handle_legacy_server: Bio.PDB.acquisition.legacy and Bio.PDB.PDBServer. *)
(***************************************************************************)
LowerCase == "abcdefghijklmnopqrstuvwxyz"
UpperCase == "ABCDEFGHIJKLMNOPQRSTUVWXYZ"
\* The characters \w matches in a lowered ASCII address.
WordChars == "abcdefghijklmnopqrstuvwxyz0123456789_"

\* The position of the character c in s (0 when it does not occur).
RECURSIVE Find(_, _, _)
Find(c, s, i) ==
    IF i > Len(s) THEN 0 ELSE IF SubSeq(s, i, i) = c THEN i ELSE Find(c, s, i + 1)

\* The characters of s mapped from one alphabet to the other.
RECURSIVE MapCase(_, _, _)
MapCase(s, from, to) ==
    IF s = "" THEN ""
    ELSE LET c == SubSeq(s, 1, 1)
             k == Find(c, from, 1)
         IN  (IF k = 0 THEN c ELSE SubSeq(to, k, k))
                 \o MapCase(SubSeq(s, 2, Len(s)), from, to)

\* Mutant: the address matched as given.
LowerForgotten(s) == s

\* str.lower()
Lower(s) == MapCase(s, UpperCase, LowerCase)
Upper(s) == MapCase(s, LowerCase, UpperCase)
\* Every other character in upper case.
RECURSIVE Mixed(_)
Mixed(s) ==
    IF Len(s) < 2 THEN Upper(s)
    ELSE Upper(SubSeq(s, 1, 1)) \o SubSeq(s, 2, 2) \o Mixed(SubSeq(s, 3, Len(s)))

StartsWith(s, prefix) == Len(s) >= Len(prefix) /\ SubSeq(s, 1, Len(prefix)) = prefix
EndsWith(s, suffix) ==
    Len(s) >= Len(suffix) /\ SubSeq(s, Len(s) - Len(suffix) + 1, Len(s)) = suffix
DropFirst(s, n) == SubSeq(s, n + 1, Len(s))
DropLast(s, n) == SubSeq(s, 1, Len(s) - n)
\* (\/)?$ : one trailing slash, when there is one, belongs to no group.
WithoutSlash(s) == IF EndsWith(s, "/") THEN DropLast(s, 1) ELSE s

NoMatch == None
Match(protocol, domain) == Some([protocol |-> protocol, domain |-> domain])

\* (?P<domain>.*\..*?)(\/)?$ on the rest r of the address: any text with a dot.
AnyDomain(r) ==
    IF Find(".", WithoutSlash(r), 1) # 0 THEN Some(WithoutSlash(r)) ELSE None

\* _SERVER_REGEX of acquisition/legacy.py:
\* ^(?P<protocol>(http|ftp)s?):\/{2}(ftp\.)?(?P<domain>.*\..*?)(\/)?$
\* The alternatives are tried in the order of the backtracking matcher.
_SERVER_REGEX(s) ==
    LET protocol == IF StartsWith(s, "https://") THEN Some("https")
                    ELSE IF StartsWith(s, "http://") THEN Some("http")
                    ELSE IF StartsWith(s, "ftps://") THEN Some("ftps")
                    ELSE IF StartsWith(s, "ftp://") THEN Some("ftp")
                    ELSE None
    IN  IF IsNone(protocol) THEN NoMatch
        ELSE LET r == DropFirst(s, Len(Val(protocol)) + 3)
                 stripped == IF StartsWith(r, "ftp.") THEN AnyDomain(DropFirst(r, 4))
                             ELSE None
                 domain == IF ~IsNone(stripped) THEN stripped ELSE AnyDomain(r)
             IN  IF IsNone(domain) THEN NoMatch ELSE Match(Val(protocol), Val(domain))

\* The length of the longest prefix of s made of \w characters, from i on.
RECURSIVE WordPrefix(_, _)
WordPrefix(s, i) ==
    IF i < Len(s) /\ Find(SubSeq(s, i + 1, i + 1), WordChars, 1) # 0
    THEN WordPrefix(s, i + 1)
    ELSE i

\* The domains SERVER_REGEX spells out, in the order of the alternation.
RegexDomains == <<"wwpdb.org", "rcsb.org", "ebi.ac.uk", "pdbj.org">>

\* SERVER_REGEX of PDBServer.py:
\* ^(?P<protocol>\w*):\/\/((?P<subdomain>.*?)\.)?(?P<domain>wwpdb\.org|...)(\/)?$
SERVER_REGEX(s) ==
    LET n == WordPrefix(s, 0)
        r == WithoutSlash(DropFirst(s, n + 3))
        \* the rest is a listed domain, alone or after "<subdomain>."
        fits(d) == r = d \/ EndsWith(r, "." \o d)
    IN  IF SubSeq(s, n + 1, n + 3) # "://" THEN NoMatch
        ELSE IF \E i \in 1..Len(RegexDomains) : fits(RegexDomains[i])
        THEN Match(SubSeq(s, 1, n),
                   RegexDomains[CHOOSE i \in 1..Len(RegexDomains) : fits(RegexDomains[i])])
        ELSE NoMatch

\* available_protocol.name.lower(), for the members of PDBServerProtocol in order.
ProtocolName(protocol) == IF protocol = HTTPS THEN "https" ELSE "ftp"

\* for available_protocol in PDBServerProtocol: ... break
FirstProtocol(protocol_str) ==
    IF \E i \in 1..Len(PDBServerProtocol) : ProtocolName(PDBServerProtocol[i]) = protocol_str
    THEN Some(PDBServerProtocol[
             CHOOSE i \in 1..Len(PDBServerProtocol) :
                /\ ProtocolName(PDBServerProtocol[i]) = protocol_str
                /\ \A j \in 1..(i - 1) : ProtocolName(PDBServerProtocol[j]) # protocol_str])
    ELSE None
\* Mutant: the first server when no domain matches.
FirstServerOrDefault(servers, domain_str) ==
    IF \E i \in 1..Len(servers) : servers[i].domain = domain_str
    THEN Some(servers[CHOOSE i \in 1..Len(servers) : servers[i].domain = domain_str])
    ELSE Some(servers[1])

\* for available_server in ...: if available_server.domain == domain_str: ... break
FirstServer(servers, domain_str) ==
    IF \E i \in 1..Len(servers) : servers[i].domain = domain_str
    THEN Some(servers[CHOOSE i \in 1..Len(servers) :
                         /\ servers[i].domain = domain_str
                         /\ \A j \in 1..(i - 1) : servers[j].domain # domain_str])
    ELSE None

\* The body both modules share, given the regex match and the server list.
LegacyLookup(match, servers) ==
    IF IsNone(match) THEN Raises("UnsupportedServerError", "PDB server is not supported")
    ELSE LET protocol_obj == FirstProtocol(Val(match).protocol)
             server_obj == FirstServer(servers, Val(match).domain)
         IN  IF IsNone(protocol_obj)
             THEN Raises("UnsupportedProtocolError", "Protocol is not supported")
             ELSE IF IsNone(server_obj)
             THEN Raises("UnsupportedServerError", "PDB server is not supported")
             ELSE Returns(<<Val(server_obj), Val(protocol_obj)>>)

\* Bio.PDB.acquisition.legacy.handle_legacy_server
handle_legacy_server(server) == LegacyLookup(_SERVER_REGEX(Lower(server)), get_pdb_servers)

\* Bio.PDB.PDBServer.handle_legacy_server
PDBServer_handle_legacy_server(server) == LegacyLookup(SERVER_REGEX(Lower(server)), PDB_SERVERS)

\* The addresses given to the parsers: a protocol, "://", a host made of an
\* optional subdomain and a domain, an optional slash, written in some letter
\* case; and two strings that are no address.
AddressParts ==
    [protocol : {"ftp", "https", "http", "ftps", "sftp"},
     subdomain : {"", "ftp.", "files."},
     domain : {"wwpdb.org", "rcsb.org", "ebi.ac.uk", "pdbj.org",
               "not-a-supported-server.org", "xwwpdb.org"},
     slash : {"", "/"},
     letters : {"lower", "upper", "mixed"}]
Cased(letters, s) ==
    CASE letters = "lower" -> s [] letters = "upper" -> Upper(s) [] letters = "mixed" -> Mixed(s)
Address(parts) ==
    Cased(parts.letters,
          parts.protocol \o "://" \o parts.subdomain \o parts.domain \o parts.slash)

\* PDBServer.build_full_domain_legacy of PDBServer.py
build_full_domain_legacy(server, protocol) ==
    IF protocol = FTP THEN server.ftp_subdomain \o "." \o server.domain
    ELSE server.http_subdomain \o "." \o server.domain
\* build_pdb_directory_url of PDBServer.py, up to the host: no pdb_directory.
HostAddress(server, protocol) ==
    method(protocol) \o "://" \o build_full_domain_legacy(server, protocol)

\* PDBServerProtocol.url_prefix of acquisition/protocol.py
url_prefix(protocol) == ProtocolName(protocol) \o "://"

\* Mutant: the subdomain of the file servers for HTTPS.
AcqServer_subdomain_files(protocol) == IF protocol = FTP THEN "ftp." ELSE "files."

\* PDBServer.subdomain of acquisition/server.py
AcqServer_subdomain(protocol) == IF protocol = FTP THEN "ftp." ELSE ""
\* build_pdb_directory_url of acquisition/server.py, up to the host.
AcqServer_HostAddress(server, protocol) ==
    url_prefix(protocol) \o AcqServer_subdomain(protocol) \o server.domain

\* The host addresses each module builds for its registered servers.
BuiltHosts ==
    {[address |-> HostAddress(PDB_SERVERS[i], protocol), parts |-> None,
      built |-> Some([module |-> "PDBServer", server |-> PDB_SERVERS[i],
                      protocol |-> protocol])] :
        i \in 1..Len(PDB_SERVERS), protocol \in Protocols}
    \cup
    {[address |-> AcqServer_HostAddress(get_pdb_servers[i], protocol), parts |-> None,
      built |-> Some([module |-> "acquisition.legacy", server |-> get_pdb_servers[i],
                      protocol |-> protocol])] :
        i \in 1..Len(get_pdb_servers), protocol \in Protocols}

LegacyInputs ==
    {[address |-> Address(parts), parts |-> Some(parts), built |-> None] :
        parts \in AddressParts}
        \cup {[address |-> a, parts |-> None, built |-> None] :
                 a \in {"ftp.wwpdb.org", "ftp:/wwpdb.org"}}
        \cup BuiltHosts

InitLegacy ==
    /\ legacy_server \in {Some(i) : i \in LegacyInputs}
    /\ legacy_result = None
    /\ sel_pc = "done"
    /\ sel_protocol = None
    /\ sel_servers = << >>
    /\ sel_timings = << >>
    /\ sel_i = 0
    /\ fastest_server = None
    /\ fastest_timing = None
    /\ sel_result = None
    /\ timing_cache = << >>
    /\ fastest_cache = << >>
    /\ connects = << >>
    /\ probe_ret = None
    /\ target = None
    /\ dir_exists = FALSE
    /\ fs = << >>
    /\ pc = "idle"
    /\ call = None
    /\ prev_call = None
    /\ asm_pc = "done"
    /\ available = 0
    /\ assembly_index = 0
    /\ next_assembly = FALSE
    /\ attempts = << >>
    /\ last_response = None
    /\ request = None
    /\ result = None
    /\ threads = << >>
    /\ upd_pc = "done"
    /\ upd_codes = << >>
    /\ upd_i = 0
    /\ upd_log = << >>

HandleLegacyServer ==
    /\ IsNone(legacy_result)
    /\ legacy_result' = Some([module |-> "acquisition.legacy",
                              out |-> handle_legacy_server(Val(legacy_server).address)])
    /\ UNCHANGED legacy_server
    /\ UNCHANGED <<selVars, probeVars, retVars, asmVars, fmtVars, thrVars, updVars>>

HandleLegacyServerPDBServer ==
    /\ IsNone(legacy_result)
    /\ legacy_result' = Some([module |-> "PDBServer",
                              out |-> PDBServer_handle_legacy_server(
                                          Val(legacy_server).address)])
    /\ UNCHANGED legacy_server
    /\ UNCHANGED <<selVars, probeVars, retVars, asmVars, fmtVars, thrVars, updVars>>

NextLegacy ==
    \/ HandleLegacyServer
    \/ HandleLegacyServerPDBServer

SpecLegacy == InitLegacy /\ [][NextLegacy]_vars

(***************************************************************************)
(* Claims about legacy addresses, checked under SpecLegacy.                *)
(***************************************************************************)
Parts == Val(Val(legacy_server).parts)
LegacyOut == Val(legacy_result).out
\* The servers registered with the module that answered.
Registered ==
    IF Val(legacy_result).module = "PDBServer" THEN PDB_SERVERS ELSE get_pdb_servers
\* The address is p://d or p://ftp.d, with or without a slash, in any case,
\* for a protocol p of {ftp, https} and the domain d of a registered server.
LegacyAddress ==
    /\ ~IsNone(legacy_result)
    /\ ~IsNone(Val(legacy_server).parts)
    /\ Parts.protocol \in {"ftp", "https"}
    /\ Parts.subdomain \in {"", "ftp."}
    /\ \E i \in 1..Len(Registered) : Registered[i].domain = Parts.domain

\* C20: such an address parses to the registered server with that domain and
\* the protocol it names.
C20_LegacyAddress ==
    LegacyAddress
        => /\ IsReturned(LegacyOut)
           /\ LegacyOut[2][1] \in {Registered[i] : i \in 1..Len(Registered)}
           /\ LegacyOut[2][1].domain = Parts.domain
           /\ LegacyOut[2][2] = (IF Parts.protocol = "ftp" THEN FTP ELSE HTTPS)
C20_Witness ==
    /\ LegacyAddress
    /\ Val(legacy_server).address = "HTTPS://EBI.AC.UK/"
    /\ LegacyOut[2][1].domain = "ebi.ac.uk"
    /\ LegacyOut[2][2] = HTTPS

\* The address has the shape protocol://[ftp.]domain[/] with the domain of a
\* server registered with the module that answered.
RegisteredShape ==
    /\ ~IsNone(legacy_result)
    /\ ~IsNone(Val(legacy_server).parts)
    /\ Parts.subdomain \in {"", "ftp."}
    /\ \E i \in 1..Len(Registered) : Registered[i].domain = Parts.domain
LegacyRaised(error) == IsRaised(LegacyOut) /\ LegacyOut[2] = error

\* C21 as stated: such an address with a protocol other than ftp and https
\* (ftps, http, sftp) raises UnsupportedProtocolError.
C21_AsStated ==
    (RegisteredShape /\ Parts.protocol \notin {"ftp", "https"})
        => LegacyRaised("UnsupportedProtocolError")

\* C22: an address with protocol ftp or https whose domain is the domain of no
\* registered server raises UnsupportedServerError; no pair is returned.
C22_UnknownDomain ==
    (/\ ~IsNone(legacy_result)
     /\ ~IsNone(Val(legacy_server).parts)
     /\ Parts.protocol \in {"ftp", "https"}
     /\ \A i \in 1..Len(Registered) : Registered[i].domain # Parts.domain)
        => LegacyRaised("UnsupportedServerError")
C22_Witness ==
    /\ ~IsNone(legacy_result)
    /\ Val(legacy_result).module = "acquisition.legacy"
    /\ Val(legacy_server).address = "ftp://ftp.not-a-supported-server.org"
    /\ LegacyRaised("UnsupportedServerError")

Built == Val(Val(legacy_server).built)
\* C30: the host address a module builds for a registered server and a
\* protocol parses, in that module, to that server and that protocol.
C30_RoundTrip ==
    (/\ ~IsNone(legacy_result)
     /\ ~IsNone(Val(legacy_server).built)
     /\ Val(legacy_result).module = Built.module)
        => LegacyOut = Returns(<<Built.server, Built.protocol>>)
C30_Witness ==
    /\ ~IsNone(legacy_result)
    /\ ~IsNone(Val(legacy_server).built)
    /\ Val(legacy_result).module = "PDBServer"
    /\ Built.module = "PDBServer"
    /\ Val(legacy_server).address = "https://data.pdbjbk1.pdbj.org"
    /\ LegacyOut = Returns(<<PDB_SERVERS[4], HTTPS>>)

(***************************************************************************)
(* PDBList.update_pdb: the loop over the new and the modified entries.     *)
(*                                                                         *)
(* A behaviour follows one call.  The server's weekly lists and the        *)
(* with_assemblies flag are the inputs; each iteration of the loop is one  *)
(* step, in which retrieve_pdb_file and, when asked for,                   *)
(* download_assemblies return or raise.  The loop over the obsolete        *)
(* entries, which follows, is entered and not followed further.            *)
(***************************************************************************)
\* The weekly lists: up to two codes each, a code may be in both.
CodeLists ==
    {<< >>} \cup {<<a>> : a \in Codes} \cup {<<a, b>> : a \in Codes, b \in Codes}

\* The exceptions a retrieval can raise into the loop (retrieve_pdb_file
\* handles the OSError of urlretrieve itself).
UpdateErrors == {"EOFError", "ValueError"}

\* What the body of the try statement can do for one code: both calls return,
\* or one of them raises; download_assemblies is called only when
\* with_assemblies is set and retrieve_pdb_file returned.
TryBody(with_assemblies) ==
    {[calls |-> IF with_assemblies
                THEN <<"retrieve_pdb_file", "download_assemblies">>
                ELSE <<"retrieve_pdb_file">>,
      raised |-> None]}
    \cup {[calls |-> <<"retrieve_pdb_file">>, raised |-> Some(err)] : err \in UpdateErrors}
    \cup (IF with_assemblies
          THEN {[calls |-> <<"retrieve_pdb_file", "download_assemblies">>,
                 raised |-> Some(err)] : err \in UpdateErrors}
          ELSE {})

\* print(f"error {pdb_code}: {err}\n")
ErrorLine(pdb_code, err) == "error " \o pdb_code \o ": " \o err \o "\n"

\* Mutant: no handler around the body, the exception leaves the loop.
ExceptExceptionMissing(pdb_code, body) ==
    IF IsNone(body.raised)
    THEN [printed |-> None, pc |-> "loop"]
    ELSE [printed |-> None, pc |-> "raised"]

\* except Exception as err: print(...); the loop goes on to the next code.
ExceptException(pdb_code, body) ==
    IF IsNone(body.raised)
    THEN [printed |-> None, pc |-> "loop"]
    ELSE [printed |-> Some(ErrorLine(pdb_code, Val(body.raised))), pc |-> "loop"]

InitUpdate ==
    /\ upd_pc = "loop"
    /\ request \in {Some([new |-> new, modified |-> modified,
                          with_assemblies |-> with_assemblies]) :
                        new \in CodeLists, modified \in CodeLists,
                        with_assemblies \in BOOLEAN}
    /\ upd_codes = Val(request).new \o Val(request).modified
    /\ upd_i = 0
    /\ upd_log = << >>
    /\ result = None
    /\ sel_pc = "done"
    /\ sel_protocol = None
    /\ sel_servers = << >>
    /\ sel_timings = << >>
    /\ sel_i = 0
    /\ fastest_server = None
    /\ fastest_timing = None
    /\ sel_result = None
    /\ timing_cache = << >>
    /\ fastest_cache = << >>
    /\ connects = << >>
    /\ probe_ret = None
    /\ target = None
    /\ dir_exists = FALSE
    /\ fs = << >>
    /\ pc = "idle"
    /\ call = None
    /\ prev_call = None
    /\ asm_pc = "done"
    /\ available = 0
    /\ assembly_index = 0
    /\ next_assembly = FALSE
    /\ attempts = << >>
    /\ last_response = None
    /\ legacy_server = None
    /\ legacy_result = None
    /\ threads = << >>

\* One iteration of "for pdb_code in new + modified": the try statement.
UpdateAttempt ==
    /\ upd_pc = "loop"
    /\ upd_i < Len(upd_codes)
    /\ \E body \in TryBody(Val(request).with_assemblies) :
          LET pdb_code == upd_codes[upd_i + 1]
              handled == ExceptException(pdb_code, body)
          IN  /\ upd_log' = Append(upd_log, [pdb_code |-> pdb_code, calls |-> body.calls,
                                             raised |-> body.raised,
                                             printed |-> handled.printed])
              /\ upd_pc' = handled.pc
    /\ upd_i' = upd_i + 1
    /\ UNCHANGED upd_codes
    /\ UNCHANGED <<selVars, probeVars, retVars, asmVars, fmtVars, legVars, thrVars>>

\* A KeyboardInterrupt or SystemExit during an iteration is no Exception: it
\* leaves update_pdb.
UpdateInterrupt ==
    /\ upd_pc = "loop"
    /\ upd_i < Len(upd_codes)
    /\ upd_pc' = "interrupted"
    /\ UNCHANGED <<upd_codes, upd_i, upd_log>>
    /\ UNCHANGED <<selVars, probeVars, retVars, asmVars, fmtVars, legVars, thrVars>>

\* The list is exhausted: on to "for pdb_code in obsolete".
UpdateLoopEnd ==
    /\ upd_pc = "loop"
    /\ upd_i = Len(upd_codes)
    /\ upd_pc' = "obsolete"
    /\ UNCHANGED <<upd_codes, upd_i, upd_log>>
    /\ UNCHANGED <<selVars, probeVars, retVars, asmVars, fmtVars, legVars, thrVars>>

NextUpdate == UpdateAttempt \/ UpdateInterrupt \/ UpdateLoopEnd

SpecUpdate == InitUpdate /\ [][NextUpdate]_vars

(***************************************************************************)
(* Claims about update_pdb (checked under SpecUpdate).                     *)
(***************************************************************************)
\* C25: in the loop of update_pdb every code of the new and the modified list
\* is attempted exactly once, in list order, whatever the earlier attempts
\* did: the k-th attempt is on the k-th code of new + modified, a raised
\* exception is printed with its code, and the loop is left only past the
\* last code.
C25_EveryCodeAttempted ==
    /\ upd_codes = Val(request).new \o Val(request).modified
    /\ Len(upd_log) = upd_i
    /\ upd_i <= Len(upd_codes)
    /\ \A k \in 1..Len(upd_log) :
          /\ upd_log[k].pdb_code = upd_codes[k]
          /\ upd_log[k].calls[1] = "retrieve_pdb_file"
          /\ ~IsNone(upd_log[k].raised) =>
                upd_log[k].printed =
                    Some("error " \o upd_codes[k] \o ": " \o Val(upd_log[k].raised) \o "\n")
    /\ upd_pc \in {"loop", "obsolete", "interrupted"}
    /\ upd_pc = "obsolete" => Len(upd_log) = Len(upd_codes)

\* C25 witness: four codes, the first attempt raised in retrieve_pdb_file, the
\* second in download_assemblies, the others returned, and the loop is over.
C25_Witness ==
    /\ upd_pc = "obsolete"
    /\ Len(upd_codes) = 4
    /\ Len(upd_log) = 4
    /\ ~IsNone(upd_log[1].raised) /\ Len(upd_log[1].calls) = 1
    /\ ~IsNone(upd_log[2].raised) /\ Len(upd_log[2].calls) = 2
    /\ IsNone(upd_log[3].raised)
    /\ IsNone(upd_log[4].raised)

(***************************************************************************)
(* Concurrent callers of the memoized probe, and the probe's socket.       *)
(*                                                                         *)
(* Each thread calls get_server_connection_timing again and again.  The    *)
(* wrapper of functools.cache looks the key up, calls the function on a    *)
(* miss and stores what it returned; it holds no lock while the function   *)
(* runs.  The function builds a socket, connects inside the with block,    *)
(* and leaves the block through the finally clause of build_socket.        *)
(***************************************************************************)
Threads == {"t1", "t2"}

\* The arguments the threads call with: one server named by two instances,
\* under both protocols.
ThreadArgs ==
    {<<WWServer("get_pdb_servers"), FTP>>, <<WWServer("caller"), FTP>>,
     <<WWServer("caller"), HTTPS>>}

\* What leaves the with block: the elapsed time, None after `except
\* Exception` (connect refused or timed out), or an exception that is no
\* Exception and propagates.
BodyOutcomes ==
    {<<"return", Some(1)>>, <<"return", None>>, <<"raise", "KeyboardInterrupt">>}

ThreadIdle == [pc |-> "idle", key |-> None, sock |-> "none", closes |-> 0,
               pending |-> None, ret |-> None]

\* Mutant: close() after the yield, without try/finally.
build_socket_exit_no_finally(th) ==
    IF Val(th.pending)[1] = "return"
    THEN [th EXCEPT !.sock = "closed", !.closes = th.closes + 1]
    ELSE th

\* finally: server_socket.close()
build_socket_exit(th) == [th EXCEPT !.sock = "closed", !.closes = th.closes + 1]

InitThreads ==
    /\ threads = [t \in Threads |-> ThreadIdle]
    /\ timing_cache = << >>
    /\ connects = << >>
    /\ fastest_cache = << >>
    /\ probe_ret = None
    /\ sel_pc = "done"
    /\ sel_protocol = None
    /\ sel_servers = << >>
    /\ sel_timings = << >>
    /\ sel_i = 0
    /\ fastest_server = None
    /\ fastest_timing = None
    /\ sel_result = None
    /\ target = None
    /\ dir_exists = FALSE
    /\ fs = << >>
    /\ pc = "idle"
    /\ call = None
    /\ prev_call = None
    /\ asm_pc = "done"
    /\ available = 0
    /\ assembly_index = 0
    /\ next_assembly = FALSE
    /\ attempts = << >>
    /\ last_response = None
    /\ request = None
    /\ result = None
    /\ legacy_server = None
    /\ legacy_result = None
    /\ upd_pc = "done"
    /\ upd_codes = << >>
    /\ upd_i = 0
    /\ upd_log = << >>

\* A thread calls get_server_connection_timing(server, protocol).
ThreadCall(t) ==
    /\ threads[t].pc = "idle"
    /\ \E args \in ThreadArgs :
          threads' = [threads EXCEPT ![t] =
                         [ThreadIdle EXCEPT !.pc = "lookup",
                                            !.key = Some(CacheKey(args[1], args[2]))]]
    /\ UNCHANGED <<timing_cache, fastest_cache, connects, probe_ret>>
    /\ UNCHANGED <<selVars, retVars, asmVars, fmtVars, legVars, updVars>>

\* The wrapper finds the key: the stored value is returned.
ThreadCacheHit(t) ==
    /\ threads[t].pc = "lookup"
    /\ Val(threads[t].key) \in DOMAIN timing_cache
    /\ threads' = [threads EXCEPT ![t].pc = "idle",
                       ![t].ret = Some(<<"returned", timing_cache[Val(threads[t].key)]>>)]
    /\ UNCHANGED <<timing_cache, fastest_cache, connects, probe_ret>>
    /\ UNCHANGED <<selVars, retVars, asmVars, fmtVars, legVars, updVars>>

\* The wrapper does not find the key: the function is called.
ThreadCacheMiss(t) ==
    /\ threads[t].pc = "lookup"
    /\ Val(threads[t].key) \notin DOMAIN timing_cache
    /\ threads' = [threads EXCEPT ![t].pc = "build_socket"]
    /\ UNCHANGED <<timing_cache, fastest_cache, connects, probe_ret>>
    /\ UNCHANGED <<selVars, retVars, asmVars, fmtVars, legVars, updVars>>

\* with build_socket() as server_socket: socket.socket(...), settimeout(1), yield.
ThreadBuildSocket(t) ==
    /\ threads[t].pc = "build_socket"
    /\ threads' = [threads EXCEPT ![t].pc = "connect", ![t].sock = "open"]
    /\ UNCHANGED <<timing_cache, fastest_cache, connects, probe_ret>>
    /\ UNCHANGED <<selVars, retVars, asmVars, fmtVars, legVars, updVars>>

\* The body of the with block: server_socket.connect(...) and what follows.
ThreadConnect(t) ==
    /\ threads[t].pc = "connect"
    /\ \E outcome \in BodyOutcomes :
          threads' = [threads EXCEPT ![t].pc = "exit", ![t].pending = Some(outcome)]
    /\ connects' = Bump(connects, Val(threads[t].key))
    /\ UNCHANGED <<timing_cache, fastest_cache, probe_ret>>
    /\ UNCHANGED <<selVars, retVars, asmVars, fmtVars, legVars, updVars>>

\* The with block is left through build_socket; an exception goes on to the
\* caller, a returned value goes to the wrapper.
ThreadExit(t) ==
    /\ threads[t].pc = "exit"
    /\ LET th == build_socket_exit(threads[t])
       IN  threads' = [threads EXCEPT ![t] =
               IF Val(th.pending)[1] = "return"
               THEN [th EXCEPT !.pc = "store"]
               ELSE [th EXCEPT !.pc = "idle",
                               !.ret = Some(<<"raised", Val(th.pending)[2]>>)]]
    /\ UNCHANGED <<timing_cache, fastest_cache, connects, probe_ret>>
    /\ UNCHANGED <<selVars, retVars, asmVars, fmtVars, legVars, updVars>>

\* The wrapper stores the returned value under the key and returns it.
ThreadStore(t) ==
    /\ threads[t].pc = "store"
    /\ timing_cache' = Put(timing_cache, Val(threads[t].key), Val(threads[t].pending)[2])
    /\ threads' = [threads EXCEPT ![t].pc = "idle",
                       ![t].ret = Some(<<"returned", Val(threads[t].pending)[2]>>)]
    /\ UNCHANGED <<fastest_cache, connects, probe_ret>>
    /\ UNCHANGED <<selVars, retVars, asmVars, fmtVars, legVars, updVars>>

NextThreads ==
    \E t \in Threads :
        \/ ThreadCall(t)
        \/ ThreadCacheHit(t)
        \/ ThreadCacheMiss(t)
        \/ ThreadBuildSocket(t)
        \/ ThreadConnect(t)
        \/ ThreadExit(t)
        \/ ThreadStore(t)

SpecThreads == InitThreads /\ [][NextThreads]_vars

(***************************************************************************)
(* Claims about concurrent probes and sockets (checked under SpecThreads). *)
(***************************************************************************)
\* The thread has connected for its key and its result is not stored yet.
Probing(t) == threads[t].pc \in {"exit", "store"}
\* The thread's call returned a value.
ThreadReturned(t) ==
    /\ threads[t].pc = "idle"
    /\ ~IsNone(threads[t].ret)
    /\ Val(threads[t].ret)[1] = "returned"

\* C23 as stated: when several callers request the probe result of the same
\* (server, protocol) pair concurrently, no two of them have a TCP probe of
\* that pair under way, and the callers the pair was answered to got the same
\* result.  (Refuted: both callers miss the cache before either stores.)
C23_AsStated ==
    \A t1, t2 \in Threads :
        (t1 # t2 /\ threads[t1].key = threads[t2].key) =>
            /\ ~(Probing(t1) /\ Probing(t2))
            /\ (ThreadReturned(t1) /\ ThreadReturned(t2)) =>
                  threads[t1].ret = threads[t2].ret

\* C26: every socket opened for a probe is closed exactly once by the time
\* the probe returns or raises, whether the connect succeeded, failed or
\* timed out, or the body of the with block raised; a socket is closed at
\* most once, and is open only while its with block runs.
C26_SocketClosedOnce ==
    \A t \in Threads :
        /\ threads[t].closes <= 1
        /\ (threads[t].sock = "closed") = (threads[t].closes = 1)
        /\ (threads[t].sock = "open") => threads[t].pc \in {"connect", "exit"}
        /\ threads[t].pc \in {"connect", "exit"} => threads[t].sock = "open"
        /\ (threads[t].pc \in {"store", "idle"} /\ ~IsNone(threads[t].pending))
              => (threads[t].sock = "closed" /\ threads[t].closes = 1)

\* C26 witness: one probe ended by an exception raised in the with block,
\* another returned None after a failed connect, and both sockets are closed.
C26_Witness ==
    /\ threads["t1"].pc = "idle"
    /\ threads["t1"].ret = Some(<<"raised", "KeyboardInterrupt">>)
    /\ threads["t1"].sock = "closed" /\ threads["t1"].closes = 1
    /\ threads["t2"].pc = "idle"
    /\ threads["t2"].ret = Some(<<"returned", None>>)
    /\ threads["t2"].pending = Some(<<"return", None>>)
    /\ threads["t2"].sock = "closed" /\ threads["t2"].closes = 1

(***************************************************************************)
(* The static configuration (Bio.PDB.acquisition.config, .server and       *)
(* .protocol): get_config, get_pdb_servers, get_default_protocol.          *)
(*                                                                         *)
(* A behaviour has one configuration file, which does not change; the      *)
(* three functions are called on it in any order.  The value that          *)
(* functools.cache keeps for get_config is then the value a fresh load     *)
(* gives, and an exception is not kept.                                    *)
(***************************************************************************)
\* JSON values, by kind: an object keeps its members, a string its text.
JsonString(text) == [kind |-> "string", text |-> text]
JsonNull == [kind |-> "null", text |-> ""]
JsonArray == [kind |-> "array", text |-> ""]

\* A member of "servers": each of the three keys is present or not.
ServerEntries ==
    [domain : {None, Some("wwpdb.org")},
     label : {None, Some("Worldwide")},
     pdb_directory : {None, Some("/pub/pdb")}]

\* The "servers" member: absent, or an object of up to two entries, in the
\* order of the file.
ServersMembers ==
    {None, Some(<< >>)}
    \cup {Some(<<[code |-> "WW", entry |-> a]>>) : a \in ServerEntries}
    \cup {Some(<<[code |-> "WW", entry |-> a], [code |-> "US", entry |-> b]>>) :
             a \in ServerEntries, b \in ServerEntries}

\* The value of default.protocol: a protocol's name, another string, or a
\* value of another JSON type.
ProtocolValues ==
    {JsonString("HTTPS"), JsonString("FTP"), JsonString("SFTP"), JsonNull, JsonArray}

\* The "default" member: absent, not an object, or an object in which
\* "protocol" is present or not.
DefaultMembers ==
    {None, Some([kind |-> "string", protocol |-> None]),
     Some([kind |-> "object", protocol |-> None])}
    \cup {Some([kind |-> "object", protocol |-> Some(v)]) : v \in ProtocolValues}

\* What json.load returns: an object with its two members, or another value.
JsonDocuments ==
    {[kind |-> "array", default |-> None, servers |-> None]}
    \cup {[kind |-> "object", default |-> d, servers |-> sv] :
             d \in DefaultMembers, sv \in ServersMembers}

\* config.json: open() fails, json.load fails, or a document is loaded.
ConfigFiles ==
    {[state |-> "unreadable", document |-> None],
     [state |-> "invalid_json", document |-> None]}
    \cup {[state |-> "loaded", document |-> Some(doc)] : doc \in JsonDocuments}

\* The result of evaluating an expression: a value, or the exception raised.
Value(v) == <<"value", v>>
Exc(name) == <<"exc", name>>
IsExc(r) == r[1] = "exc"

\* get_config(): try: open, json.load; except Exception: ConfigurationError.
get_config(file) ==
    IF file.state = "loaded"
    THEN Returns(Val(file.document))
    ELSE Raises("ConfigurationError", "Error loading configuration")

\* configuration["servers"].items()
ServersItems(configuration) ==
    IF configuration.kind # "object" THEN Exc("TypeError")
    ELSE IF IsNone(configuration.servers) THEN Exc("KeyError")
    ELSE Value(Val(configuration.servers))

\* PDBServer(code=code, domain=server["domain"], label=server["label"],
\*           pdb_directory=server["pdb_directory"])
ServerOf(item) ==
    IF IsNone(item.entry.domain) \/ IsNone(item.entry.label)
         \/ IsNone(item.entry.pdb_directory)
    THEN Exc("KeyError")
    ELSE Value(AcqServer("get_pdb_servers", item.code, Val(item.entry.domain),
                         Val(item.entry.label), Val(item.entry.pdb_directory)))

\* The list comprehension over the items, from item i on.
RECURSIVE ServerList(_, _, _)
ServerList(items, i, built) ==
    IF i > Len(items) THEN Value(built)
    ELSE IF IsExc(ServerOf(items[i])) THEN ServerOf(items[i])
    ELSE ServerList(items, i + 1, Append(built, ServerOf(items[i])[2]))

\* get_pdb_servers() on the configuration file.  (The model's
\* get_pdb_servers is the list the tests install.)
get_pdb_servers_of(file) ==
    LET configuration == get_config(file) IN
    IF IsRaised(configuration) THEN configuration
    ELSE LET items == ServersItems(configuration[2]) IN
         IF IsExc(items)
         THEN Raises("ConfigurationError", "Error parsing server from configuration")
         ELSE LET servers == ServerList(items[2], 1, << >>) IN
              IF IsExc(servers)
              THEN Raises("ConfigurationError", "Error parsing server from configuration")
              ELSE Returns(servers[2])

\* configuration["default"]["protocol"]
DefaultProtocolOf(configuration) ==
    IF configuration.kind # "object" THEN Exc("TypeError")
    ELSE IF IsNone(configuration.default) THEN Exc("KeyError")
    ELSE IF Val(configuration.default).kind # "object" THEN Exc("TypeError")
    ELSE IF IsNone(Val(configuration.default).protocol) THEN Exc("KeyError")
    ELSE Value(Val(Val(configuration.default).protocol))

\* PDBServerProtocol[protocol]: the member of that name; KeyError for any
\* other hashable value; a list is not hashable.
ProtocolByName(protocol) ==
    IF protocol.kind = "array" THEN Exc("TypeError")
    ELSE IF protocol = JsonString("HTTPS") THEN Value(HTTPS)
    ELSE IF protocol = JsonString("FTP") THEN Value(FTP)
    ELSE Exc("KeyError")

\* get_default_protocol() on the configuration file.
get_default_protocol(file) ==
    LET configuration == get_config(file) IN
    IF IsRaised(configuration) THEN configuration
    ELSE LET protocol == DefaultProtocolOf(configuration[2]) IN
         IF IsExc(protocol)
         THEN Raises("ConfigurationError",
                     "Error parsing default protocol from configuration")
         ELSE LET member == ProtocolByName(protocol[2]) IN
              IF ~IsExc(member) THEN Returns(member[2])
              ELSE IF member[2] = "KeyError"
              THEN Raises("UnsupportedProtocolError", protocol[2].text)
              ELSE Raises(member[2], "unhashable type")

InitConfig ==
    /\ request \in {Some(file) : file \in ConfigFiles}
    /\ result = None
    /\ sel_pc = "done"
    /\ sel_protocol = None
    /\ sel_servers = << >>
    /\ sel_timings = << >>
    /\ sel_i = 0
    /\ fastest_server = None
    /\ fastest_timing = None
    /\ sel_result = None
    /\ timing_cache = << >>
    /\ fastest_cache = << >>
    /\ connects = << >>
    /\ probe_ret = None
    /\ target = None
    /\ dir_exists = FALSE
    /\ fs = << >>
    /\ pc = "idle"
    /\ call = None
    /\ prev_call = None
    /\ asm_pc = "done"
    /\ available = 0
    /\ assembly_index = 0
    /\ next_assembly = FALSE
    /\ attempts = << >>
    /\ last_response = None
    /\ legacy_server = None
    /\ legacy_result = None
    /\ threads = << >>
    /\ upd_pc = "done"
    /\ upd_codes = << >>
    /\ upd_i = 0
    /\ upd_log = << >>

GetConfig ==
    /\ result' = Answer("get_config", get_config(Val(request)))
    /\ UNCHANGED request
    /\ UNCHANGED <<selVars, probeVars, retVars, asmVars, legVars, thrVars, updVars>>

GetPdbServers ==
    /\ result' = Answer("get_pdb_servers", get_pdb_servers_of(Val(request)))
    /\ UNCHANGED request
    /\ UNCHANGED <<selVars, probeVars, retVars, asmVars, legVars, thrVars, updVars>>

GetDefaultProtocol ==
    /\ result' = Answer("get_default_protocol", get_default_protocol(Val(request)))
    /\ UNCHANGED request
    /\ UNCHANGED <<selVars, probeVars, retVars, asmVars, legVars, thrVars, updVars>>

NextConfig == GetConfig \/ GetPdbServers \/ GetDefaultProtocol

SpecConfig == InitConfig /\ [][NextConfig]_vars

(***************************************************************************)
(* Claims about the configuration (checked under SpecConfig).              *)
(***************************************************************************)
\* The loaded document, when there is one.
Document == Val(Val(request).document)
Loaded == Val(request).state = "loaded"
\* The server list is unusable: no "servers" object, or an entry without
\* domain, label or pdb_directory.
ServersFaulty ==
    \/ Document.kind # "object"
    \/ IsNone(Document.servers)
    \/ \E i \in 1..Len(Val(Document.servers)) :
          LET entry == Val(Document.servers)[i].entry IN
          IsNone(entry.domain) \/ IsNone(entry.label) \/ IsNone(entry.pdb_directory)
\* The default protocol is missing.
DefaultProtocolMissing ==
    \/ Document.kind # "object"
    \/ IsNone(Document.default)
    \/ Val(Document.default).kind # "object"
    \/ IsNone(Val(Document.default).protocol)
\* The configuration fails to load or parse, for the function that was called.
ConfigFaulty ==
    \/ ~Loaded
    \/ Called("get_pdb_servers") /\ ServersFaulty
    \/ Called("get_default_protocol") /\ DefaultProtocolMissing
ConfigurationErrorRaised == IsRaised(Out) /\ Out[2] = "ConfigurationError"

\* C24 as stated: a configuration that fails to load or parse makes
\* get_config, get_pdb_servers and get_default_protocol raise
\* ConfigurationError; none of them lets another exception escape (a default
\* protocol that names no protocol is the unsupported-protocol error), and
\* get_pdb_servers returns the servers of all entries or none.
\* (Refuted: a default protocol that is a JSON array escapes as TypeError.)
C24_AsStated ==
    ~IsNone(result) =>
        /\ ConfigFaulty => ConfigurationErrorRaised
        /\ IsRaised(Out) => Out[2] \in {"ConfigurationError", "UnsupportedProtocolError"}
        /\ (Called("get_pdb_servers") /\ IsReturned(Out)) =>
              Len(Out[2]) = Len(Val(Document.servers))

=============================================================================
